---- MODULE Spec2Model ----
(***************************************************************************)
(* Paper-trading engine of backend/backtesting (paper_trading.py) as a     *)
(* state machine.  Python floats are modelled as exact rationals           *)
(* [n |-> numerator, d |-> denominator > 0] in lowest terms, so equality   *)
(* of two amounts is equality of the records; quantities are integers.     *)
(***************************************************************************)
EXTENDS Integers, Sequences, FiniteSets, TLC

\* ------------------------------------------------------------------ bounds
\* the calls that change the portfolio or a table (trades applied, snapshots
\* saved) after which no further call is made
MaxCalls == 2

\* ------------------------------------------------- float arithmetic (exact)
Abs(x) == IF x < 0 THEN -x ELSE x

RECURSIVE GCD(_, _)
GCD(a, b) == IF b = 0 THEN a ELSE GCD(b, a % b)

Rat(n, d) ==
    LET g == GCD(Abs(n), d) IN [n |-> n \div g, d |-> d \div g]

RInt(i) == [n |-> i, d |-> 1]

Zero == RInt(0)

RNeg(a) == [n |-> -a.n, d |-> a.d]

RAdd(a, b) ==
    LET g == GCD(a.d, b.d)
    IN  Rat(a.n * (b.d \div g) + b.n * (a.d \div g), (a.d \div g) * b.d)

RSub(a, b) == RAdd(a, RNeg(b))

RMul(a, b) ==
    LET g1 == GCD(Abs(a.n), b.d)
        g2 == GCD(Abs(b.n), a.d)
    IN  [n |-> (a.n \div g1) * (b.n \div g2), d |-> (a.d \div g2) * (b.d \div g1)]

RInv(a) == IF a.n > 0 THEN [n |-> a.d, d |-> a.n] ELSE [n |-> -a.d, d |-> -a.n]

RDiv(a, b) == RMul(a, RInv(b))

RLt(a, b) ==
    LET g == GCD(a.d, b.d)
    IN  a.n * (b.d \div g) < b.n * (a.d \div g)

RGt(a, b) == RLt(b, a)

RMin(a, b) == IF RLt(b, a) THEN b ELSE a

\* int(x) of a non-negative float
RFloor(a) == a.n \div a.d

\* ------------------------------------------------------------ configuration
\* BacktestConfig() with its defaults
BacktestConfig ==
    [ initial_capital      |-> RInt(10000000),
      commission_rate      |-> Rat(15, 100000),
      tax_rate             |-> Rat(23, 10000),
      max_position_size    |-> Rat(2, 10),
      stop_loss            |-> Rat(5, 100),
      take_profit          |-> Rat(10, 100),
      min_trade_value      |-> RInt(100000),
      confidence_threshold |-> Rat(6, 10) ]

\* the configurations an engine is constructed with: the defaults, and a broker
\* charging 15% commission
ConfigInputs ==
    { BacktestConfig, [BacktestConfig EXCEPT !.commission_rate = Rat(15, 100)] }

\* TradingAction
BUY == "buy"
SELL == "sell"
HOLD == "hold"

\* ------------------------------------------------------------------- inputs
\* two tickers of the default watchlist
Tickers == {"005930", "AAPL"}

\* prices per share: the higher 15% above the lower, the lower 13% below the higher
PriceInputs == {RInt(2000000), RInt(2300000)}

\* quantities: part of a holding, a whole holding, more than the capital buys
QuantityInputs == {1, 2, 5}

\* Optional[int]: <<>> is None
PredictionIdInputs == {<<>>, <<1>>}

\* probabilities at and beyond the two thresholds, and between them
ProbabilityInputs == {Rat(30, 100), Rat(35, 100), Rat(50, 100), Rat(65, 100), Rat(70, 100)}

\* confidences below and at the threshold
ConfidenceInputs == {Rat(5, 10), Rat(6, 10)}

\* prices a trade is sized at: those traded, and a share cheap enough for the
\* minimum trade value to decide
SizingPrices == PriceInputs \cup {RInt(20000)}

\* cash a trade is sized with, beside the cash of the portfolio: 95% of it
\* below and above min_trade_value
SizingCash == {RInt(100000), RInt(120000)}

\* the orders placed by direct calls of _execute_trade, each as a BUY or a SELL
Orders ==
    { [ticker |-> "005930", price |-> RInt(2000000), quantity |-> 2],
      [ticker |-> "005930", price |-> RInt(2300000), quantity |-> 1],
      [ticker |-> "AAPL",   price |-> RInt(2300000), quantity |-> 2],
      [ticker |-> "AAPL",   price |-> RInt(2000000), quantity |-> 1] }

\* the predictions processed: a strong buy, a strong sell, a neutral one, and a
\* strong buy of low confidence
Predictions ==
    { [probability |-> Rat(70, 100), confidence |-> Rat(6, 10)],
      [probability |-> Rat(30, 100), confidence |-> Rat(6, 10)],
      [probability |-> Rat(50, 100), confidence |-> Rat(6, 10)],
      [probability |-> Rat(70, 100), confidence |-> Rat(5, 10)] }

\* the price maps update_portfolio_values is called with: no ticker, one
\* ticker, every ticker at the lower or at the higher price
PriceMaps ==
    { <<>>,
      "005930" :> RInt(2300000),
      [t \in Tickers |-> RInt(2000000)],
      [t \in Tickers |-> RInt(2300000)] }

\* every price map over the tickers and prices above
AllPriceMaps == UNION {[held -> PriceInputs] : held \in SUBSET Tickers}

\* -------------------------------------------------------------------- state
VARIABLES
    config,             \* PaperTradingEngine.config
    initialized,        \* PaperTradingEngine._initialized
    portfolio,          \* PaperTradingEngine.portfolio
    paper_trades,       \* table paper_trades, in insertion order
    portfolio_history,  \* table portfolio_history, in insertion order
    calls,              \* calls that changed the portfolio or a table
    last,               \* the last call and its outcome
    predictions,        \* table predictions, by id
    day,                \* the days elapsed on the scheduler's calendar
    cache_initialized,  \* CacheManager._initialized
    cache,              \* table cache as the connection sees it, by key
    lock,               \* CacheManager._lock: the coroutine holding it, 0 if free
    pending,            \* the coroutines with statements not yet committed
    tasks,              \* the coroutines of the last asyncio.gather
    now,                \* datetime.now(), in ticks
    ops,                \* the cache operations started so far
    written,            \* the value of the last completed set, by key
    updating,           \* update_portfolio_values is awaiting its snapshot
    backtest            \* the trades of the last run of EnhancedBacktester

engine_vars == <<config, initialized, portfolio, paper_trades, portfolio_history, calls, last>>

tracker_vars == <<predictions, day>>

cache_vars == <<cache_initialized, cache, lock, pending, tasks, now, ops, written>>

vars == <<engine_vars, tracker_vars, cache_vars, updating, backtest>>

\* dict.get(key, default)
Get(dict, key, default) == IF key \in DOMAIN dict THEN dict[key] ELSE default

\* dict[key] = value
Put(dict, key, value) == (key :> value) @@ dict

\* del dict[key]
Del(dict, key) == [k \in DOMAIN dict \ {key} |-> dict[k]]

\* positions.get(ticker, {}).get('quantity', 0)
HeldQuantity(positions, ticker) ==
    IF ticker \in DOMAIN positions THEN Get(positions[ticker], "quantity", 0) ELSE 0

\* pos.get('current_price', pos['avg_price'])
CurrentPrice(pos) == Get(pos, "current_price", pos.avg_price)

\* Portfolio(...) as built by the constructor
NewPortfolio(cfg) ==
    [ cash             |-> cfg.initial_capital,
      positions        |-> <<>>,
      total_value      |-> cfg.initial_capital,
      initial_capital  |-> cfg.initial_capital,
      total_return     |-> Zero,
      total_return_pct |-> Zero,
      max_drawdown     |-> Zero,
      sharpe_ratio     |-> Zero,
      win_rate         |-> Zero,
      total_trades     |-> 0,
      winning_trades   |-> 0,
      losing_trades    |-> 0,
      avg_win          |-> Zero,
      avg_loss         |-> Zero ]

Init ==
    /\ config \in ConfigInputs
    /\ initialized = FALSE
    /\ portfolio = NewPortfolio(config)
    /\ paper_trades = <<>>
    /\ portfolio_history = <<>>
    /\ calls = 0
    /\ last = [op |-> "construct", result |-> "done"]
    /\ predictions = <<>>
    /\ day = 0
    /\ cache_initialized = FALSE
    /\ cache = <<>>
    /\ lock = 0
    /\ pending = {}
    /\ tasks = <<>>
    /\ now = 0
    /\ ops = 0
    /\ written = <<>>
    /\ updating = FALSE
    /\ backtest = <<>>

\* ------------------------------------------------------------ _execute_trade
\* trade_value = price * quantity
TradeValue(price, quantity) == RMul(price, RInt(quantity))

\* commission = trade_value * commission_rate
Commission(cfg, trade_value) == RMul(trade_value, cfg.commission_rate)

\* BUY: total_cost = trade_value + commission
BuyTotalCost(trade_value, commission) == RAdd(trade_value, commission)

\* BUY: the position entry is created if absent, then quantity, avg_price,
\* total_cost and current_price are rewritten
BuyPositions(positions, ticker, price, quantity, trade_value) ==
    LET position == IF ticker \in DOMAIN positions
                    THEN positions[ticker]
                    ELSE [quantity |-> 0, avg_price |-> Zero, total_cost |-> Zero]
        new_quantity == position.quantity + quantity
        new_total_cost == RAdd(position.total_cost, trade_value)
        p1 == Put(position, "quantity", new_quantity)
        p2 == Put(p1, "avg_price", RDiv(new_total_cost, RInt(new_quantity)))
        p3 == Put(p2, "total_cost", new_total_cost)
        p4 == Put(p3, "current_price", price)
    IN  Put(positions, ticker, p4)

\* a variant of RealizedPnl that leaves the commission out
RealizedPnlGross(price, avg_price, quantity, commission) ==
    RMul(RSub(price, avg_price), RInt(quantity))

\* SELL: realized_pnl = (price - avg_price) * quantity - commission
RealizedPnl(price, avg_price, quantity, commission) ==
    RSub(RMul(RSub(price, avg_price), RInt(quantity)), commission)

\* a variant of Tax that charges every SELL
TaxAlways(cfg, realized_pnl, trade_value) == RMul(trade_value, cfg.tax_rate)

\* SELL: tax = trade_value * tax_rate if realized_pnl > 0, else none
Tax(cfg, realized_pnl, trade_value) ==
    IF RGt(realized_pnl, Zero) THEN RMul(trade_value, cfg.tax_rate) ELSE Zero

\* a variant of SellPositions that keeps the entry of a position sold out
SellPositionsKeep(positions, ticker, price, quantity) ==
    LET position == positions[ticker]
        left == position.quantity - quantity
    IN  Put(positions, ticker,
            Put(Put(position, "quantity", left), "current_price", price))

\* SELL: quantity is reduced; the entry is deleted at 0, else current_price is set
SellPositions(positions, ticker, price, quantity) ==
    LET position == positions[ticker]
        left == position.quantity - quantity
    IN  IF left = 0
        THEN Del(positions, ticker)
        ELSE Put(positions, ticker,
                 Put(Put(position, "quantity", left), "current_price", price))

\* a variant of Rejected that lets every BUY through
RejectedSellOnly(action, total_cost, cash, position_before, quantity) ==
    action = SELL /\ position_before < quantity

\* a variant of Rejected that also refuses the BUY spending all the cash and
\* the SELL of a whole position
RejectedStrict(action, total_cost, cash, position_before, quantity) ==
    IF action = BUY THEN ~RLt(total_cost, cash) ELSE position_before <= quantity

\* the two checks that raise ValueError before anything is changed
Rejected(action, total_cost, cash, position_before, quantity) ==
    IF action = BUY THEN RGt(total_cost, cash) ELSE position_before < quantity

\* AVG(realized_pnl) over the rows of a non-empty sequence
RECURSIVE SumPnl(_)
SumPnl(rows) ==
    IF rows = <<>> THEN Zero ELSE RAdd(rows[1].realized_pnl, SumPnl(Tail(rows)))

AvgPnl(rows) == IF rows = <<>> THEN Zero ELSE RDiv(SumPnl(rows), RInt(Len(rows)))

IsSell(row) == row.action = SELL

IsWin(row) == row.action = SELL /\ RGt(row.realized_pnl, Zero)

IsLoss(row) == row.action = SELL /\ RLt(row.realized_pnl, Zero)

\* _update_portfolio_stats: the sell statistics are recomputed from paper_trades;
\* the Sharpe ratio is recomputed only from more than 30 snapshots
UpdatePortfolioStats(pf, trades) ==
    LET total == Len(SelectSeq(trades, IsSell))
        wins == SelectSeq(trades, IsWin)
        losses == SelectSeq(trades, IsLoss)
    IN  [pf EXCEPT !.total_trades = total,
                   !.winning_trades = Len(wins),
                   !.losing_trades = Len(losses),
                   !.avg_win = AvgPnl(wins),
                   !.avg_loss = AvgPnl(losses),
                   !.win_rate = IF total > 0 THEN Rat(Len(wins), total) ELSE @]

\* _execute_trade(ticker, action, price, quantity, prediction_id), the write of
\* its record succeeding (db_ok) or raising: the portfolio and the table after
\* the call, and the outcome
ExecuteTradeResult(cfg, pf, trades, ticker, action, price, quantity, prediction_id, db_ok) ==
    LET position_before == HeldQuantity(pf.positions, ticker)
        cash_before == pf.cash
        trade_value == TradeValue(price, quantity)
        commission == Commission(cfg, trade_value)
        total_cost == BuyTotalCost(trade_value, commission)
        avg_price == pf.positions[ticker].avg_price
        pretax_pnl == RealizedPnl(price, avg_price, quantity, commission)
        tax == Tax(cfg, pretax_pnl, trade_value)
        rejected == Rejected(action, total_cost, pf.cash, position_before, quantity)
        applied ==
            IF action = BUY
            THEN [pf EXCEPT !.cash = RSub(@, total_cost),
                            !.positions = BuyPositions(@, ticker, price, quantity, trade_value)]
            ELSE [pf EXCEPT !.cash = RAdd(@, RSub(trade_value, RAdd(commission, tax))),
                            !.positions = SellPositions(@, ticker, price, quantity)]
        trade ==
            [ prediction_id   |-> prediction_id,
              ticker          |-> ticker,
              action          |-> action,
              price           |-> price,
              quantity        |-> quantity,
              total_value     |-> trade_value,
              position_before |-> position_before,
              position_after  |-> HeldQuantity(applied.positions, ticker),
              cash_before     |-> cash_before,
              cash_after      |-> applied.cash,
              realized_pnl    |-> IF action = SELL THEN RSub(pretax_pnl, tax) ELSE Zero,
              commission      |-> IF action = SELL THEN RAdd(commission, tax) ELSE commission ]
        recorded == Append(trades, trade)
    IN  IF rejected
        THEN [ portfolio |-> pf, paper_trades |-> trades,
               result |-> IF action = BUY THEN "InsufficientCash" ELSE "InsufficientShares" ]
        ELSE IF prediction_id = <<>>
        THEN [ portfolio |-> applied, paper_trades |-> trades, result |-> "ValidationError" ]
        ELSE IF ~db_ok
        THEN [ portfolio |-> applied, paper_trades |-> trades, result |-> "StorageError" ]
        ELSE [ portfolio |-> UpdatePortfolioStats(applied, recorded),
               paper_trades |-> recorded, result |-> "trade" ]

\* a trade applied in memory whose record was not written
Unrecorded(result) == result \in {"ValidationError", "StorageError"}

\* a trade applied in memory, its record written or not
Applied(result) == result = "trade" \/ Unrecorded(result)

\* a direct call of _execute_trade
ExecuteTrade(ticker, action, price, quantity, prediction_id, db_ok) ==
    LET r == ExecuteTradeResult(config, portfolio, paper_trades, ticker, action,
                                price, quantity, prediction_id, db_ok)
    IN  /\ initialized
        /\ calls < MaxCalls
        /\ portfolio' = r.portfolio
        /\ paper_trades' = r.paper_trades
        /\ calls' = IF Applied(r.result) THEN calls + 1 ELSE calls
        /\ last' = [op |-> "execute", result |-> r.result]
        /\ UNCHANGED <<config, initialized, portfolio_history>>

\* -------------------------------------------------- signal and trade sizing
\* a variant of DetermineAction whose probability thresholds are inclusive
DetermineActionInclusive(cfg, positions, ticker, probability, confidence) ==
    LET current_position == HeldQuantity(positions, ticker)
        position_info == positions[ticker]
        avg_price == position_info.avg_price
        current_price == CurrentPrice(position_info)
        pnl_pct == RDiv(RSub(current_price, avg_price), avg_price)
    IN  IF RLt(confidence, cfg.confidence_threshold) THEN HOLD
        ELSE IF ~RLt(probability, Rat(65, 100)) /\ current_position = 0 THEN BUY
        ELSE IF ~RGt(probability, Rat(35, 100)) /\ current_position > 0 THEN SELL
        ELSE IF current_position > 0 /\ RLt(pnl_pct, RNeg(cfg.stop_loss)) THEN SELL
        ELSE IF current_position > 0 /\ RGt(pnl_pct, cfg.take_profit) THEN SELL
        ELSE HOLD

\* _determine_action(ticker, prediction)
DetermineAction(cfg, positions, ticker, probability, confidence) ==
    LET current_position == HeldQuantity(positions, ticker)
        position_info == positions[ticker]
        avg_price == position_info.avg_price
        current_price == CurrentPrice(position_info)
        pnl_pct == RDiv(RSub(current_price, avg_price), avg_price)
    IN  IF RLt(confidence, cfg.confidence_threshold) THEN HOLD
        ELSE IF RGt(probability, Rat(65, 100)) /\ current_position = 0 THEN BUY
        ELSE IF RLt(probability, Rat(35, 100)) /\ current_position > 0 THEN SELL
        ELSE IF current_position > 0 /\ RLt(pnl_pct, RNeg(cfg.stop_loss)) THEN SELL
        ELSE IF current_position > 0 /\ RGt(pnl_pct, cfg.take_profit) THEN SELL
        ELSE HOLD

\* a variant of CalculateQuantity without the minimum trade value
CalculateQuantityNoMinimum(cfg, pf, ticker, price, action) ==
    LET max_position_value == RMul(pf.total_value, cfg.max_position_size)
        available_cash == RMul(pf.cash, Rat(95, 100))
        max_value == RMin(max_position_value, available_cash)
    IN  IF action = BUY
        THEN RFloor(RDiv(max_value, price))
        ELSE IF action = SELL
        THEN HeldQuantity(pf.positions, ticker)
        ELSE 0

\* a variant of CalculateQuantity that sizes a BUY with all the cash, not 95% of it
CalculateQuantityAllCash(cfg, pf, ticker, price, action) ==
    LET max_position_value == RMul(pf.total_value, cfg.max_position_size)
        max_value == RMin(max_position_value, pf.cash)
    IN  IF action = BUY
        THEN IF RLt(max_value, cfg.min_trade_value)
             THEN 0
             ELSE RFloor(RDiv(max_value, price))
        ELSE IF action = SELL
        THEN HeldQuantity(pf.positions, ticker)
        ELSE 0

\* _calculate_quantity(ticker, price, action)
CalculateQuantity(cfg, pf, ticker, price, action) ==
    LET max_position_value == RMul(pf.total_value, cfg.max_position_size)
        available_cash == RMul(pf.cash, Rat(95, 100))
        max_value == RMin(max_position_value, available_cash)
    IN  IF action = BUY
        THEN IF RLt(max_value, cfg.min_trade_value)
             THEN 0
             ELSE RFloor(RDiv(max_value, price))
        ELSE IF action = SELL
        THEN HeldQuantity(pf.positions, ticker)
        ELSE 0

\* ------------------------------------------------------ snapshot and restore
\* the elements of a finite set, one after the other
RECURSIVE SeqOfSet(_)
SeqOfSet(S) ==
    IF S = {} THEN <<>>
    ELSE LET x == CHOOSE y \in S : TRUE IN <<x>> \o SeqOfSet(S \ {x})

\* json.dumps of one value of a position: an int keeps its integer literal,
\* a float its shortest round-tripping decimal
JsonNumber(key, value) ==
    IF key = "quantity" THEN [int |-> value] ELSE [num |-> value.n, den |-> value.d]

\* json.loads of a number literal
ParseNumber(token) ==
    IF "int" \in DOMAIN token THEN token.int ELSE Rat(token.num, token.den)

\* json.dumps(positions): one member per ticker, holding one member per key
JsonDumps(positions) ==
    LET tickers == SeqOfSet(DOMAIN positions)
        Members(pos) ==
            LET keys == SeqOfSet(DOMAIN pos)
            IN  [i \in 1..Len(keys) |-> <<keys[i], JsonNumber(keys[i], pos[keys[i]])>>]
    IN  [i \in 1..Len(tickers) |-> <<tickers[i], Members(positions[tickers[i]])>>]

\* json.loads(text)
JsonLoads(text) ==
    LET Object(members) ==
            [k \in {members[i][1] : i \in DOMAIN members} |->
                ParseNumber((CHOOSE m \in {members[i] : i \in DOMAIN members} : m[1] = k)[2])]
    IN  [t \in {text[i][1] : i \in DOMAIN text} |->
            Object((CHOOSE m \in {text[i] : i \in DOMAIN text} : m[1] = t)[2])]

\* a variant of LatestSnapshot that reads the oldest row
OldestSnapshot(history) ==
    CHOOSE row \in {history[i] : i \in DOMAIN history} :
        \A i \in DOMAIN history : history[i].date >= row.date

\* SELECT ... FROM portfolio_history ORDER BY date DESC LIMIT 1, of a non-empty table
LatestSnapshot(history) ==
    CHOOSE row \in {history[i] : i \in DOMAIN history} :
        \A i \in DOMAIN history : history[i].date <= row.date

\* SELECT MAX(total_value) FROM portfolio_history, of a non-empty table
RECURSIVE MaxTotalValue(_)
MaxTotalValue(history) ==
    IF Len(history) = 1 THEN history[1].total_value
    ELSE LET m == MaxTotalValue(Tail(history))
         IN  IF RLt(m, history[1].total_value) THEN history[1].total_value ELSE m

\* _save_portfolio_snapshot: the portfolio (max_drawdown) and the table after it;
\* datetime.now() is the number of the row, later rows carrying later dates
SavePortfolioSnapshot(pf, history) ==
    LET prev_value == IF history = <<>> THEN pf.initial_capital
                      ELSE LatestSnapshot(history).total_value
        daily_return == RMul(RDiv(RSub(pf.total_value, prev_value), prev_value), RInt(100))
        peak_value == IF history # <<>> /\ MaxTotalValue(history) # Zero
                      THEN MaxTotalValue(history)
                      ELSE pf.total_value
        drawdown == RMul(RDiv(RSub(pf.total_value, peak_value), peak_value), RInt(100))
        row == [ date              |-> Len(history) + 1,
                 cash              |-> pf.cash,
                 positions         |-> JsonDumps(pf.positions),
                 total_value       |-> pf.total_value,
                 daily_return      |-> daily_return,
                 cumulative_return |-> pf.total_return_pct,
                 drawdown          |-> drawdown ]
    IN  [ portfolio |-> [pf EXCEPT !.max_drawdown = RMin(@, drawdown)],
          portfolio_history |-> Append(history, row) ]

\* the first loop of update_portfolio_values: current_price and unrealized_pnl
\* of each held ticker that current_prices names
RefreshPositions(positions, current_prices) ==
    [t \in DOMAIN positions |->
        IF t \in DOMAIN current_prices
        THEN Put(Put(positions[t], "current_price", current_prices[t]),
                 "unrealized_pnl",
                 RMul(RSub(current_prices[t], positions[t].avg_price),
                      RInt(positions[t].quantity)))
        ELSE positions[t]]

\* sum(pos['quantity'] * pos.get('current_price', pos['avg_price']) for pos in positions.values())
RECURSIVE PositionsValueOf(_, _)
PositionsValueOf(positions, tickers) ==
    IF tickers = {} THEN Zero
    ELSE LET t == CHOOSE x \in tickers : TRUE
         IN  RAdd(RMul(RInt(positions[t].quantity), CurrentPrice(positions[t])),
                  PositionsValueOf(positions, tickers \ {t}))

PositionsValue(positions) == PositionsValueOf(positions, DOMAIN positions)

\* a variant of RevaluePortfolio that sums the positions before their prices
\* are refreshed
RevaluePortfolioStale(pf, current_prices) ==
    LET positions == RefreshPositions(pf.positions, current_prices)
        total_value == RAdd(pf.cash, PositionsValue(pf.positions))
        total_return == RSub(total_value, pf.initial_capital)
    IN  [pf EXCEPT !.positions = positions,
                   !.total_value = total_value,
                   !.total_return = total_return,
                   !.total_return_pct =
                       RMul(RDiv(total_return, pf.initial_capital), RInt(100))]

\* update_portfolio_values up to the snapshot
RevaluePortfolio(pf, current_prices) ==
    LET positions == RefreshPositions(pf.positions, current_prices)
        total_value == RAdd(pf.cash, PositionsValue(positions))
        total_return == RSub(total_value, pf.initial_capital)
    IN  [pf EXCEPT !.positions = positions,
                   !.total_value = total_value,
                   !.total_return = total_return,
                   !.total_return_pct =
                       RMul(RDiv(total_return, pf.initial_capital), RInt(100))]

\* _restore_portfolio
RestorePortfolio(pf, history) ==
    IF history = <<>> THEN pf
    ELSE LET row == LatestSnapshot(history)
         IN  [pf EXCEPT !.cash = row.cash,
                        !.positions = JsonLoads(row.positions),
                        !.total_value = row.total_value]

\* ---------------------------------------------------------------- operations
\* initialize(): the tables exist afterwards and the portfolio is restored
Initialize ==
    /\ ~initialized
    /\ initialized' = TRUE
    /\ portfolio' = RestorePortfolio(portfolio, portfolio_history)
    /\ last' = [op |-> "initialize", result |-> "done"]
    /\ UNCHANGED <<config, paper_trades, portfolio_history, calls>>

\* a variant of ChosenAction that decides on the position priced at current_price
ChosenActionAtPrice(cfg, pf, ticker, probability, confidence, current_price) ==
    DetermineAction(cfg, RefreshPositions(pf.positions, ticker :> current_price), ticker,
                    probability, confidence)

\* action = self._determine_action(ticker, prediction) of process_prediction:
\* current_price is not passed on
ChosenAction(cfg, pf, ticker, probability, confidence, current_price) ==
    DetermineAction(cfg, pf.positions, ticker, probability, confidence)

\* process_prediction(ticker, prediction, current_price) on an initialized
\* engine: the portfolio and the table after the call, and the outcome ("none"
\* is the return of None)
ProcessPredictionResult(cfg, pf, trades, ticker, probability, confidence, prediction_id, current_price, db_ok) ==
    LET action == ChosenAction(cfg, pf, ticker, probability, confidence, current_price)
        quantity == CalculateQuantity(cfg, pf, ticker, current_price, action)
    IN  IF action = HOLD \/ quantity = 0
        THEN [ portfolio |-> pf, paper_trades |-> trades, result |-> "none" ]
        ELSE ExecuteTradeResult(cfg, pf, trades, ticker, action,
                                current_price, quantity, prediction_id, db_ok)

\* process_prediction(ticker, prediction, current_price), initializing first
ProcessPrediction(ticker, probability, confidence, prediction_id, current_price, db_ok) ==
    LET pf == IF initialized THEN portfolio
              ELSE RestorePortfolio(portfolio, portfolio_history)
        r == ProcessPredictionResult(config, pf, paper_trades, ticker, probability,
                                     confidence, prediction_id, current_price, db_ok)
    IN  /\ calls < MaxCalls
        /\ initialized' = TRUE
        /\ portfolio' = r.portfolio
        /\ paper_trades' = r.paper_trades
        /\ calls' = IF Applied(r.result) THEN calls + 1 ELSE calls
        /\ last' = [op |-> "process", result |-> r.result]
        /\ UNCHANGED <<config, portfolio_history>>

\* update_portfolio_values(current_prices): the portfolio and the table after it
UpdatePortfolioValuesResult(pf, history, current_prices) ==
    SavePortfolioSnapshot(RevaluePortfolio(pf, current_prices), history)

UpdatePortfolioValues(current_prices) ==
    LET r == UpdatePortfolioValuesResult(portfolio, portfolio_history, current_prices)
    IN  /\ initialized
        /\ calls < MaxCalls
        /\ calls' = calls + 1
        /\ portfolio' = r.portfolio
        /\ portfolio_history' = r.portfolio_history
        /\ last' = [op |-> "update", result |-> "done"]
        /\ UNCHANGED <<config, initialized, paper_trades>>

\* close_position(ticker): _execute_trade is called without a prediction_id;
\* the portfolio and the table after the call, and the outcome ("none" is the
\* return of None)
ClosePositionResult(cfg, pf, trades, ticker) ==
    LET position == pf.positions[ticker]
    IN  IF ticker \notin DOMAIN pf.positions
        THEN [ portfolio |-> pf, paper_trades |-> trades, result |-> "none" ]
        ELSE ExecuteTradeResult(cfg, pf, trades, ticker, SELL,
                                CurrentPrice(position), position.quantity, <<>>, TRUE)

ClosePosition(ticker) ==
    LET r == ClosePositionResult(config, portfolio, paper_trades, ticker)
    IN  /\ initialized
        /\ calls < MaxCalls
        /\ portfolio' = r.portfolio
        /\ paper_trades' = r.paper_trades
        /\ calls' = IF Applied(r.result) THEN calls + 1 ELSE calls
        /\ last' = [op |-> "close", result |-> r.result]
        /\ UNCHANGED <<config, initialized, portfolio_history>>

\* ------------------------------------------------------------- the scheduler
\* what one ticker of the watchlist meets in generate_daily_predictions:
\* get_stock_data raises or returns nothing, predict_single raises,
\* save_prediction raises, or the prediction is saved and processed at the
\* current price, the record of its trade being written or not
ErrorEvents == {[kind |-> "FetchError"], [kind |-> "PredictError"], [kind |-> "SaveError"]}

DataEvents ==
    { [kind |-> "data", probability |-> Rat(70, 100), confidence |-> Rat(6, 10),
       price |-> RInt(2000000), db_ok |-> TRUE],
      [kind |-> "data", probability |-> Rat(70, 100), confidence |-> Rat(6, 10),
       price |-> RInt(2000000), db_ok |-> FALSE],
      [kind |-> "data", probability |-> Rat(30, 100), confidence |-> Rat(6, 10),
       price |-> RInt(2300000), db_ok |-> TRUE] }

TickerEvents == ErrorEvents \cup {[kind |-> "NoData"]} \cup DataEvents

\* the body of the loop for one ticker, with its try/except: the portfolio and
\* the table after it, and what was logged ("skipped": no data, nothing done)
GenerateOne(cfg, pf, trades, ticker, event) ==
    IF event \in ErrorEvents
    THEN [ portfolio |-> pf, paper_trades |-> trades, result |-> event.kind ]
    ELSE IF event.kind = "NoData"
    THEN [ portfolio |-> pf, paper_trades |-> trades, result |-> "skipped" ]
    ELSE ProcessPredictionResult(cfg, pf, trades, ticker, event.probability,
                                 event.confidence, <<1>>, event.price, event.db_ok)

\* generate_daily_predictions over a watchlist (a sequence of tickers), events
\* giving what each ticker meets: the portfolio and the table after the loop,
\* and the outcome of each ticker attempted, in order
BatchStep(acc, ticker, one) ==
    [ portfolio |-> one.portfolio, paper_trades |-> one.paper_trades,
      outcomes |-> Append(acc.outcomes, [ticker |-> ticker, result |-> one.result]) ]

RECURSIVE GenerateDailyPredictionsLoop(_, _, _, _)
GenerateDailyPredictionsLoop(cfg, acc, watchlist, events) ==
    IF watchlist = <<>> THEN acc
    ELSE GenerateDailyPredictionsLoop(
             cfg,
             BatchStep(acc, Head(watchlist),
                       GenerateOne(cfg, acc.portfolio, acc.paper_trades,
                                   Head(watchlist), events[Head(watchlist)])),
             Tail(watchlist), events)

GenerateDailyPredictionsResult(cfg, pf, trades, watchlist, events) ==
    GenerateDailyPredictionsLoop(
        cfg, [ portfolio |-> pf, paper_trades |-> trades, outcomes |-> <<>> ],
        watchlist, events)

\* list(set(...)): the watchlist in some order
Watchlists == {<<"005930", "AAPL">>, <<"AAPL", "005930">>}

\* the outcomes of a batch that changed the portfolio
AppliedIn(outcomes) == Len(SelectSeq(outcomes, LAMBDA o : Applied(o.result)))

\* the engine after the loop, r giving the portfolio, the table and the outcomes
GenerateDailyPredictionsEffect(r) ==
    /\ initialized
    /\ calls < MaxCalls
    /\ calls + AppliedIn(r.outcomes) <= MaxCalls
    /\ portfolio' = r.portfolio
    /\ paper_trades' = r.paper_trades
    /\ calls' = calls + AppliedIn(r.outcomes)
    /\ last' = [op |-> "batch",
                result |-> IF \E i \in DOMAIN r.outcomes :
                                  r.outcomes[i].result \notin {"trade", "none", "skipped"}
                           THEN "logged" ELSE "done"]
    /\ UNCHANGED <<config, initialized, portfolio_history>>

GenerateDailyPredictions(watchlist, events) ==
    GenerateDailyPredictionsEffect(
        GenerateDailyPredictionsResult(config, portfolio, paper_trades, watchlist, events))

\* the process is restarted: a new engine is constructed and initialized over
\* the same database
Restart ==
    /\ initialized
    /\ portfolio' = RestorePortfolio(NewPortfolio(config), portfolio_history)
    /\ last' = [op |-> "restart", result |-> "done"]
    /\ UNCHANGED <<config, initialized, paper_trades, portfolio_history, calls>>

\* direct calls carry a prediction_id, and the write of their record may fail
ExecuteTradeCall ==
    \E order \in Orders, action \in {BUY, SELL}, db_ok \in BOOLEAN :
        ExecuteTrade(order.ticker, action, order.price, order.quantity, <<1>>, db_ok)

\* the prediction processed was saved (it has an id) or was not
ProcessPredictionCall ==
    \E ticker \in Tickers, prediction \in Predictions,
       prediction_id \in PredictionIdInputs, current_price \in PriceInputs :
        ProcessPrediction(ticker, prediction.probability, prediction.confidence,
                          prediction_id, current_price, TRUE)

UpdatePortfolioValuesCall ==
    \E current_prices \in PriceMaps : UpdatePortfolioValues(current_prices)

\* the batches run: both tickers bought; one failing before its prediction is
\* processed; one whose trade is not written; one without data beside a sale;
\* both failing
BuyEvent == [kind |-> "data", probability |-> Rat(70, 100), confidence |-> Rat(6, 10),
             price |-> RInt(2000000), db_ok |-> TRUE]

BatchEvents ==
    { [t \in Tickers |-> BuyEvent],
      ("005930" :> [kind |-> "FetchError"]) @@ ("AAPL" :> BuyEvent),
      ("005930" :> [BuyEvent EXCEPT !.db_ok = FALSE]) @@ ("AAPL" :> BuyEvent),
      ("005930" :> [kind |-> "NoData"])
          @@ ("AAPL" :> [BuyEvent EXCEPT !.probability = Rat(30, 100),
                                         !.price = RInt(2300000)]),
      ("005930" :> [kind |-> "PredictError"]) @@ ("AAPL" :> [kind |-> "SaveError"]) }

GenerateDailyPredictionsCall ==
    \E watchlist \in Watchlists, events \in BatchEvents :
        GenerateDailyPredictions(watchlist, events)

ClosePositionCall == \E ticker \in Tickers : ClosePosition(ticker)

\* ------------------------------------------------------- get_portfolio_summary
\* one entry of 'positions': the position is read with pos[...] and pos.get
SummaryOfPosition(ticker, pos) ==
    [ ticker         |-> ticker,
      quantity       |-> pos.quantity,
      avg_price      |-> pos.avg_price,
      current_price  |-> CurrentPrice(pos),
      unrealized_pnl |-> Get(pos, "unrealized_pnl", Zero),
      pnl_pct        |-> RMul(RDiv(RSub(CurrentPrice(pos), pos.avg_price), pos.avg_price),
                              RInt(100)) ]

\* a variant that stores the defaults it reads, as pos.setdefault would
PositionAfterSummaryDefaulted(pos) ==
    Put(pos, "unrealized_pnl", Get(pos, "unrealized_pnl", Zero))

\* the position after it was read: pos.get stores nothing
PositionAfterSummary(pos) == pos

\* get_portfolio_summary: the dictionary returned and the portfolio after the
\* call; the entries of 'positions' are kept by ticker
GetPortfolioSummaryResult(pf) ==
    [ summary |->
        [ cash             |-> pf.cash,
          positions        |-> [t \in DOMAIN pf.positions |->
                                   SummaryOfPosition(t, pf.positions[t])],
          total_value      |-> pf.total_value,
          total_return     |-> pf.total_return,
          total_return_pct |-> pf.total_return_pct,
          win_rate         |-> pf.win_rate,
          sharpe_ratio     |-> pf.sharpe_ratio,
          max_drawdown     |-> pf.max_drawdown ],
      portfolio |->
        [pf EXCEPT !.positions = [t \in DOMAIN pf.positions |->
                                     PositionAfterSummary(pf.positions[t])]] ]

GetPortfolioSummary ==
    /\ initialized
    /\ calls < MaxCalls
    /\ LET r == GetPortfolioSummaryResult(portfolio)
       IN  /\ portfolio' = r.portfolio
           /\ last' = [op |-> "summary", result |-> "done", summary |-> r.summary]
    /\ UNCHANGED <<config, initialized, paper_trades, portfolio_history, calls>>

\* the engine acts; the ledger of predictions and the cache stay as they are
EngineOnly == UNCHANGED <<tracker_vars, cache_vars, updating, backtest>>

Next ==
    \/ Initialize /\ EngineOnly
    \/ GetPortfolioSummary /\ EngineOnly
    \/ ExecuteTradeCall /\ EngineOnly
    \/ ProcessPredictionCall /\ EngineOnly
    \/ UpdatePortfolioValuesCall /\ EngineOnly
    \/ ClosePositionCall /\ EngineOnly
    \/ GenerateDailyPredictionsCall /\ EngineOnly
    \/ Restart /\ EngineOnly

Spec == Init /\ [][Next]_vars

\* ------------------------------------------- the engine driven by predictions
\* the engine as the scheduler drives it: predictions processed and prices
\* updated, positions closed, no other direct call of _execute_trade
PredictionNext ==
    \/ Initialize /\ EngineOnly
    \/ ProcessPredictionCall /\ EngineOnly
    \/ UpdatePortfolioValuesCall /\ EngineOnly
    \/ ClosePositionCall /\ EngineOnly

PredictionSpec == Init /\ [][PredictionNext]_vars

\* ---------------------------------------------------------- EnhancedBacktester
\* the loop of _calculate_max_drawdown over trade['portfolio_value']
RECURSIVE MaxDrawdownLoop(_, _, _)
MaxDrawdownLoop(values, peak, max_dd) ==
    IF values = <<>> THEN max_dd
    ELSE IF RGt(Head(values), peak)
         THEN MaxDrawdownLoop(Tail(values), Head(values), max_dd)
         ELSE MaxDrawdownLoop(Tail(values), peak,
                              RMin(max_dd, RDiv(RSub(Head(values), peak), peak)))

\* _calculate_max_drawdown(trades), values being the portfolio_value of the trades
CalculateMaxDrawdown(values) ==
    IF values = <<>> THEN Zero ELSE MaxDrawdownLoop(values, values[1], Zero)

\* the predictions of a backtest at most
MaxPredictionDays == 4

\* a HOLD record is appended every 20 days
HoldEvery == 20

\* initial_capital of the backtests run
BacktestCapital == RInt(1000)

\* the predictions of a day: a buy signal, a sell signal or neither, at a lower
\* or a higher price
DayPredictions ==
    { [price |-> RInt(price), probability |-> probability, confidence |-> Rat(7, 10)] :
        price \in {90, 110}, probability \in {Rat(7, 10), Rat(3, 10), Rat(5, 10)} }

PredictionLists == UNION {[1..n -> DayPredictions] : n \in 1..MaxPredictionDays}

\* the branch taken on a buy signal without a position: 95% of the capital is
\* spent on whole shares, if it pays for one
SimulateBuy(st, pred) ==
    LET shares == RFloor(RDiv(RMul(st.capital, Rat(95, 100)), pred.price))
        capital == RSub(st.capital, RMul(RInt(shares), pred.price))
    IN  IF shares > 0
        THEN [ capital |-> capital, position |-> shares,
               trades |-> Append(st.trades,
                   [ type |-> "BUY", price |-> pred.price, shares |-> shares,
                     capital |-> capital, position |-> shares,
                     portfolio_value |-> RAdd(capital, RMul(RInt(shares), pred.price)) ]) ]
        ELSE st

\* a variant of the cost taken off the revenue: that of the last BUY record
LastBuyCost(trades) ==
    LET buys == SelectSeq(trades, LAMBDA t : t.type = "BUY")
    IN  IF buys = <<>> THEN Zero
        ELSE RMul(RInt(buys[Len(buys)].shares), buys[Len(buys)].price)

\* trades[-1]['shares'] * trades[-1]['price'], nothing before the first record
LastRecordCost(trades) ==
    IF trades = <<>> THEN Zero
    ELSE RMul(RInt(trades[Len(trades)].shares), trades[Len(trades)].price)

\* the branch taken on a sell signal with a position
SimulateSell(st, pred) ==
    LET revenue == RMul(RInt(st.position), pred.price)
        capital == RAdd(st.capital, revenue)
    IN  [ capital |-> capital, position |-> 0,
          trades |-> Append(st.trades,
              [ type |-> "SELL", price |-> pred.price, shares |-> st.position,
                capital |-> capital, position |-> 0, portfolio_value |-> capital,
                profit |-> IF st.trades = <<>> THEN Zero
                           ELSE RSub(revenue, LastRecordCost(st.trades)) ]) ]

\* the signal of the day
SimulateSignal(st, pred) ==
    IF RGt(pred.probability, Rat(65, 100)) /\ RGt(pred.confidence, Rat(6, 10))
    THEN IF st.position = 0 THEN SimulateBuy(st, pred) ELSE st
    ELSE IF RLt(pred.probability, Rat(35, 100)) /\ st.position > 0
         THEN SimulateSell(st, pred)
         ELSE st

\* if i % 20 == 0: the HOLD record
SimulateHold(st, i, pred) ==
    IF i % HoldEvery = 0
    THEN [st EXCEPT !.trades = Append(@,
             [ type |-> "HOLD", price |-> pred.price, shares |-> 0,
               capital |-> st.capital, position |-> st.position,
               portfolio_value |-> RAdd(st.capital, RMul(RInt(st.position), pred.price)) ])]
    ELSE st

\* for i, pred in enumerate(predictions[:-1]), i counted from 0
RECURSIVE SimulateLoop(_, _, _)
SimulateLoop(preds, i, st) ==
    IF i + 1 >= Len(preds) THEN st
    ELSE SimulateLoop(preds, i + 1,
                      SimulateHold(SimulateSignal(st, preds[i + 1]), i, preds[i + 1]))

\* _simulate_trades(predictions, initial_capital)
SimulateTrades(preds, initial_capital) ==
    SimulateLoop(preds, 0,
                 [capital |-> initial_capital, position |-> 0, trades |-> <<>>]).trades

\* run_comprehensive_backtest up to the simulation, on the predictions generated
RunBacktest(preds) ==
    /\ backtest = <<>>
    /\ backtest' = <<[ predictions |-> preds,
                       trades |-> SimulateTrades(preds, BacktestCapital) ]>>
    /\ UNCHANGED <<engine_vars, tracker_vars, cache_vars, updating>>

RunBacktestCall == \E preds \in PredictionLists : RunBacktest(preds)

BacktestNext == RunBacktestCall

BacktestSpec == Init /\ [][BacktestNext]_vars

\* ------------------------------------------------------ a series of snapshots
\* the rows of portfolio_history written at most
MaxSnapshots == 2

\* the engine after update_portfolio_values, r giving the portfolio and the table
DailyUpdateEffect(r) ==
    /\ initialized
    /\ Len(portfolio_history) < MaxSnapshots
    /\ portfolio' = r.portfolio
    /\ portfolio_history' = r.portfolio_history
    /\ last' = [op |-> "update", result |-> "done"]
    /\ UNCHANGED <<config, initialized, paper_trades, calls>>

\* update_portfolio_values(current_prices), as afternoon_check calls it day
\* after day
DailyUpdate(current_prices) ==
    DailyUpdateEffect(UpdatePortfolioValuesResult(portfolio, portfolio_history, current_prices))

DailyUpdateCall == \E current_prices \in PriceMaps : DailyUpdate(current_prices)

SnapshotNext ==
    \/ Initialize /\ EngineOnly
    \/ ExecuteTradeCall /\ EngineOnly
    \/ DailyUpdateCall /\ EngineOnly

SnapshotSpec == Init /\ [][SnapshotNext]_vars

\* ------------------------------------------------------------ check_risk_limits
\* a market in which every ticker has lost three quarters of its lower price
CrashPriceMaps == {[t \in Tickers |-> RInt(500000)]}

\* abs(portfolio.max_drawdown) > 25
RiskLimitExceeded(pf) ==
    RGt(pf.max_drawdown, RInt(25)) \/ RLt(pf.max_drawdown, RInt(-25))

\* list(portfolio.positions.keys()) in some order of insertion
KeyOrders(positions) ==
    {order \in [1..Cardinality(DOMAIN positions) -> DOMAIN positions] :
        \A i, j \in DOMAIN order : order[i] = order[j] => i = j}

\* for ticker in order: await close_position(ticker, "risk_limit"); an exception
\* of close_position leaves the loop and the function
RECURSIVE CloseAll(_, _, _)
CloseAll(cfg, acc, order) ==
    IF order = <<>> THEN acc
    ELSE IF ClosePositionResult(cfg, acc.portfolio, acc.paper_trades, Head(order)).result
            \in {"trade", "none"}
         THEN CloseAll(cfg, ClosePositionResult(cfg, acc.portfolio, acc.paper_trades, Head(order)), Tail(order))
         ELSE ClosePositionResult(cfg, acc.portfolio, acc.paper_trades, Head(order))

\* check_risk_limits: the portfolio and the table after it, and the outcome
\* ("done", or the exception that came out of close_position); the check of
\* the concentration only logs
CheckRiskLimitsResult(cfg, pf, trades, order) ==
    IF RiskLimitExceeded(pf)
    THEN [CloseAll(cfg, [portfolio |-> pf, paper_trades |-> trades, result |-> "none"], order)
          EXCEPT !.result = IF @ \in {"trade", "none"} THEN "done" ELSE @]
    ELSE [portfolio |-> pf, paper_trades |-> trades, result |-> "done"]

\* the engine after check_risk_limits, r giving the portfolio, the table and
\* the outcome
CheckRiskLimitsEffect(r) ==
    /\ initialized
    /\ portfolio' = r.portfolio
    /\ paper_trades' = r.paper_trades
    /\ last' = [op |-> "risk", result |-> r.result]
    /\ UNCHANGED <<config, initialized, portfolio_history, calls>>

CheckRiskLimits(order) ==
    CheckRiskLimitsEffect(CheckRiskLimitsResult(config, portfolio, paper_trades, order))

CheckRiskLimitsCall == \E order \in KeyOrders(portfolio.positions) : CheckRiskLimits(order)

\* afternoon_check, day after day, in a market that may crash
RiskUpdateCall == \E current_prices \in PriceMaps \cup CrashPriceMaps : DailyUpdate(current_prices)

RiskNext ==
    \/ Initialize /\ EngineOnly
    \/ ExecuteTradeCall /\ EngineOnly
    \/ RiskUpdateCall /\ EngineOnly
    \/ CheckRiskLimitsCall /\ EngineOnly

RiskSpec == Init /\ [][RiskNext]_vars

\* ------------------------------------------------- calls running concurrently
\* update_portfolio_values(current_prices) up to its first await: the prices
\* and total_value are set, the coroutine is suspended in _save_portfolio_snapshot
UpdateSuspend(current_prices) ==
    /\ initialized
    /\ ~updating
    /\ calls < MaxCalls
    /\ calls' = calls + 1
    /\ portfolio' = RevaluePortfolio(portfolio, current_prices)
    /\ updating' = TRUE
    /\ last' = [op |-> "update", result |-> "awaiting"]
    /\ UNCHANGED <<config, initialized, paper_trades, portfolio_history>>

\* the effect of the rest of _save_portfolio_snapshot: the row is built from
\* the portfolio as it is when the coroutine runs again
UpdateResumeEffect(r) ==
    /\ updating
    /\ portfolio' = r.portfolio
    /\ portfolio_history' = r.portfolio_history
    /\ updating' = FALSE
    /\ last' = [op |-> "update", result |-> "done"]
    /\ UNCHANGED <<config, initialized, paper_trades, calls>>

UpdateResume == UpdateResumeEffect(SavePortfolioSnapshot(portfolio, portfolio_history))

UpdateSuspendCall == \E current_prices \in PriceMaps : UpdateSuspend(current_prices)

\* the calls of the other coroutines run while update_portfolio_values awaits
\* or not; the engine holds no lock
OthersOnly == UNCHANGED <<tracker_vars, cache_vars, backtest>>

ConcurrentNext ==
    \/ Initialize /\ EngineOnly
    \/ ProcessPredictionCall /\ EngineOnly
    \/ ClosePositionCall /\ EngineOnly
    \/ UpdateSuspendCall /\ OthersOnly
    \/ UpdateResume /\ OthersOnly

ConcurrentSpec == Init /\ [][ConcurrentNext]_vars

\* ---------------------------------------------------------- PredictionTracker
\* the predictions the ledger holds at most
MaxPredictions == 1

\* the days the calendar advances at most
MaxDay == 7

\* the horizons the scheduler checks: morning_routine 1, daily_report 3 and 7
Horizons == {1, 3, 7}

PENDING == "pending"
CORRECT == "correct"
INCORRECT == "incorrect"
EXPIRED == "expired"

PredictionStatus == {PENDING, CORRECT, INCORRECT, EXPIRED}

Directions == {"up", "down"}

\* the realized returns a price lookup yields, in percent
ReturnInputs == {-2, 3}

\* a price lookup fails or yields the realized return
LookupInputs == {<<>>} \cup {<<r>> : r \in ReturnInputs}

\* Prediction(...): status defaults to pending, the outcomes to None
NewPrediction(direction, date) ==
    [predicted_direction |-> direction,
     prediction_date |-> date,
     status |-> PENDING,
     actual_return_1d |-> <<>>,
     actual_return_3d |-> <<>>,
     actual_return_7d |-> <<>>]

\* save_prediction: appends the prediction, pending, dated today
SavePrediction(direction) ==
    /\ Len(predictions) < MaxPredictions
    /\ predictions' = Append(predictions, NewPrediction(direction, day))
    /\ UNCHANGED day

\* the outcome field of one horizon
RecordReturn(p, days_after, r) ==
    IF days_after = 1 THEN [p EXCEPT !.actual_return_1d = <<r>>]
    ELSE IF days_after = 3 THEN [p EXCEPT !.actual_return_3d = <<r>>]
    ELSE [p EXCEPT !.actual_return_7d = <<r>>]

\* correct if (predicted_direction == up) == (actual_return_1d > 0)
Outcome(p) ==
    IF (p.predicted_direction = "up") = (p.actual_return_1d[1] > 0)
    THEN CORRECT ELSE INCORRECT

\* a variant that finalizes on the horizon just checked, whatever the status
FinalizeOnLatest(p, days_after, r) ==
    LET q == RecordReturn(p, days_after, r)
    IN [q EXCEPT !.status = IF (q.predicted_direction = "up") = (r > 0)
                            THEN CORRECT ELSE INCORRECT]

\* the status is finalized on the 1-day return, once, while pending
Finalize(p, days_after, r) ==
    LET q == RecordReturn(p, days_after, r)
    IN IF q.status = PENDING /\ q.actual_return_1d # <<>>
       THEN [q EXCEPT !.status = Outcome(q)]
       ELSE q

\* one prediction of the scan: untouched before its horizon has elapsed and
\* when the price lookup fails
CheckOne(p, days_after, lookup) ==
    IF day - p.prediction_date < days_after THEN p
    ELSE IF lookup = <<>> THEN p
    ELSE Finalize(p, days_after, lookup[1])

\* check_predictions(days_after)
CheckPredictions(days_after, lookups) ==
    /\ predictions' =
         [i \in DOMAIN predictions |-> CheckOne(predictions[i], days_after, lookups[i])]
    /\ UNCHANGED day

\* a day passes
AdvanceDay ==
    /\ day < MaxDay
    /\ day' = day + 1
    /\ UNCHANGED predictions

SavePredictionCall == \E direction \in Directions : SavePrediction(direction)

CheckPredictionsCall ==
    \E days_after \in Horizons :
        \E lookups \in [DOMAIN predictions -> LookupInputs] :
            /\ predictions # <<>>
            /\ CheckPredictions(days_after, lookups)

TrackerOnly == UNCHANGED <<engine_vars, cache_vars, updating, backtest>>

TrackerNext ==
    \/ SavePredictionCall /\ TrackerOnly
    \/ CheckPredictionsCall /\ TrackerOnly
    \/ AdvanceDay /\ TrackerOnly

TrackerSpec == Init /\ [][TrackerNext]_vars

\* -------------------------------------------------------- PerformanceAnalyzer
\* the periods a report is asked for, in days: one around the records and one
\* that ended before the first record
Periods == {[start |-> 0, end |-> 3], [start |-> -3, end |-> -1]}

Finalized(p) == p.status \in {CORRECT, INCORRECT}

IsCorrect(p) == p.status = CORRECT

\* FROM predictions WHERE prediction_date BETWEEN ? AND ?
\* AND status IN ('correct', 'incorrect')
PredictionsIn(preds, period) ==
    SelectSeq(preds, LAMBDA p : /\ period.start <= p.prediction_date
                                /\ p.prediction_date <= period.end
                                /\ Finalized(p))

\* FROM paper_trades / portfolio_history WHERE date BETWEEN ? AND ?, the date
\* of a row being its number
RowsIn(rows, period) ==
    SubSeq(rows,
           IF period.start < 1 THEN 1 ELSE period.start,
           IF period.end > Len(rows) THEN Len(rows) ELSE period.end)

\* SUM(CASE WHEN test THEN 1 ELSE 0 END) with the rows that pass the test:
\* NULL over no rows
SqlCountIf(rows, passing) ==
    IF rows = <<>> THEN <<>> ELSE <<Len(passing)>>

\* AVG(CASE WHEN test THEN 1 ELSE 0 END) with the rows that pass the test:
\* NULL over no rows
SqlShareIf(rows, passing) ==
    IF rows = <<>> THEN <<>> ELSE <<Rat(Len(passing), Len(rows))>>

\* SUM(realized_pnl): NULL over no rows
SqlSumPnl(rows) == IF rows = <<>> THEN <<>> ELSE <<SumPnl(rows)>>

\* AVG(realized_pnl): NULL over no rows
SqlAvgPnl(rows) == IF rows = <<>> THEN <<>> ELSE <<AvgPnl(rows)>>

\* _analyze_predictions: the summary and what _generate_insights reads of the
\* rest; the hour and the confidence of a prediction are not part of the rows
AnalyzePredictions(preds, period) ==
    LET rows == PredictionsIn(preds, period)
    IN  [ summary |->
            [ total_predictions   |-> Len(rows),
              correct_predictions |-> SqlCountIf(rows, SelectSeq(rows, IsCorrect)),
              accuracy_rate       |-> SqlShareIf(rows, SelectSeq(rows, IsCorrect)) ],
          best_prediction_hour |-> IF rows = <<>> THEN <<>> ELSE <<"09">>,
          optimal_confidence_threshold |-> Rat(6, 10) ]

IsBuy(row) == row.action = BUY

\* the raising division of _analyze_trading: avg_win / avg_loss with avg_loss
\* a non-zero number and avg_win NULL
ProfitFactorRaises(avg_win, avg_loss) ==
    /\ avg_loss # <<>>
    /\ avg_loss # <<Zero>>
    /\ avg_win = <<>>

\* abs(avg_win / avg_loss) if avg_loss else 0
ProfitFactor(avg_win, avg_loss) ==
    IF avg_loss # <<>> /\ avg_loss # <<Zero>>
    THEN LET f == RDiv(avg_win[1], avg_loss[1]) IN Rat(Abs(f.n), f.d)
    ELSE Zero

\* _analyze_trading
AnalyzeTrading(trades, history, period) ==
    LET rows == RowsIn(trades, period)
        sells == SelectSeq(rows, IsSell)
        snaps == RowsIn(history, period)
        from_start == SelectSeq(history, LAMBDA r : r.date >= period.start)
        to_end == SelectSeq(history, LAMBDA r : r.date <= period.end)
        start_value == IF from_start = <<>> THEN <<>> ELSE <<from_start[1].total_value>>
        end_value == IF to_end = <<>> THEN <<>> ELSE <<to_end[Len(to_end)].total_value>>
        avg_win == SqlAvgPnl(SelectSeq(sells, IsWin))
        avg_loss == SqlAvgPnl(SelectSeq(sells, IsLoss))
        period_return ==
            IF /\ start_value # <<>> /\ start_value # <<Zero>>
               /\ end_value # <<>> /\ end_value # <<Zero>>
            THEN RMul(RDiv(RSub(end_value[1], start_value[1]), start_value[1]), RInt(100))
            ELSE Zero
    IN  IF ProfitFactorRaises(avg_win, avg_loss) THEN [ raised |-> "TypeError" ]
        ELSE
        [ raised |-> "no",
          trade_statistics |->
            [ total_trades       |-> Len(rows),
              buy_trades         |-> SqlCountIf(rows, SelectSeq(rows, IsBuy)),
              sell_trades        |-> SqlCountIf(rows, SelectSeq(rows, IsSell)),
              total_realized_pnl |-> SqlSumPnl(rows),
              avg_pnl_per_trade  |-> SqlAvgPnl(rows) ],
          win_statistics |->
            [ closed_trades  |-> Len(sells),
              winning_trades |-> SqlCountIf(sells, SelectSeq(sells, IsWin)),
              avg_win        |-> avg_win,
              avg_loss       |-> avg_loss,
              win_rate       |-> IF Len(sells) > 0
                                 THEN Rat(Len(SelectSeq(sells, IsWin)), Len(sells))
                                 ELSE Zero,
              profit_factor  |-> ProfitFactor(avg_win, avg_loss) ],
          portfolio_performance |->
            [ start_value   |-> start_value,
              end_value     |-> end_value,
              period_return |-> period_return ],
          daily_returns |-> Len(snaps) ]

\* round(x, 2): the nearest hundredth, a tie going to the even one
Round2(x) ==
    LET scaled == RMul(x, RInt(100))
        low == RFloor(scaled)
        rest == RSub(scaled, RInt(low))
    IN  IF RLt(rest, Rat(1, 2)) THEN Rat(low, 100)
        ELSE IF RGt(rest, Rat(1, 2)) THEN Rat(low + 1, 100)
        ELSE IF low % 2 = 0 THEN Rat(low, 100) ELSE Rat(low + 1, 100)

\* returns = [row[0] / 100 for row in rows]
DailyReturns(rows) == [i \in DOMAIN rows |-> RDiv(rows[i].daily_return, RInt(100))]

\* (1 + returns_array).cumprod()
RECURSIVE CumProd(_, _)
CumProd(returns, i) ==
    IF i = 1 THEN RAdd(RInt(1), returns[1])
    ELSE RMul(CumProd(returns, i - 1), RAdd(RInt(1), returns[i]))

\* np.maximum.accumulate(cumulative_returns)
RECURSIVE RunningMax(_, _)
RunningMax(returns, i) ==
    IF i = 1 THEN CumProd(returns, 1)
    ELSE IF RGt(CumProd(returns, i), RunningMax(returns, i - 1))
         THEN CumProd(returns, i)
         ELSE RunningMax(returns, i - 1)

\* np.min((cumulative_returns - running_max) / running_max) over the first i
RECURSIVE MinDrawdown(_, _)
MinDrawdown(returns, i) ==
    LET here == RDiv(RSub(CumProd(returns, i), RunningMax(returns, i)), RunningMax(returns, i))
    IN  IF i = 1 THEN here ELSE RMin(MinDrawdown(returns, i - 1), here)

\* 'max_drawdown' of _analyze_risk: 0 with fewer than two returns, else the
\* minimum drawdown in percent, rounded
MaxDrawdownOfReturns(returns) ==
    IF Len(returns) < 2 THEN Zero
    ELSE Round2(RMul(MinDrawdown(returns, Len(returns)), RInt(100)))

\* the risk metrics of fewer than two daily returns
ZeroRisk ==
    [ volatility |-> Zero, max_drawdown |-> Zero, sharpe_ratio |-> Zero,
      sortino_ratio |-> Zero, var_95 |-> Zero, cvar_95 |-> Zero ]

\* _analyze_risk: max_drawdown is computed; the other statistics of two or
\* more daily returns are numpy's and are not computed here, they are numbers
\* whatever the returns
AnalyzeRisk(history, period) ==
    IF Len(RowsIn(history, period)) < 2 THEN ZeroRisk
    ELSE [ZeroRisk EXCEPT !.volatility = RInt(1),
                          !.max_drawdown =
                              MaxDrawdownOfReturns(DailyReturns(RowsIn(history, period)))]

\* a variant that reads a missing accuracy as zero
AccuracyOrZero(prediction_analysis) ==
    IF prediction_analysis.summary.accuracy_rate = <<>> THEN <<Zero>>
    ELSE prediction_analysis.summary.accuracy_rate

\* accuracy = prediction_analysis['summary']['accuracy_rate']
Accuracy(prediction_analysis) == prediction_analysis.summary.accuracy_rate

\* _generate_insights: the categories of the insights, in order; TypeError from
\* the comparison accuracy < 0.5 of an accuracy that is None
GenerateInsights(prediction_analysis, trading_analysis, risk_analysis) ==
    LET accuracy == Accuracy(prediction_analysis)
        win == trading_analysis.win_statistics
    IN  IF accuracy = <<>> THEN [ raised |-> "TypeError" ]
        ELSE
        [ raised |-> "no",
          insights |->
            (IF RLt(accuracy[1], Rat(1, 2)) \/ RGt(accuracy[1], Rat(6, 10))
             THEN <<"prediction">> ELSE <<>>)
            \o (IF prediction_analysis.best_prediction_hour # <<>>
                THEN <<"timing">> ELSE <<>>)
            \o <<"confidence">>
            \o (IF RLt(win.win_rate, Rat(4, 10)) \/ RGt(win.profit_factor, Rat(3, 2))
                THEN <<"trading">> ELSE <<>>)
            \o (IF RLt(risk_analysis.sharpe_ratio, Rat(1, 2))
                THEN <<"risk">> ELSE <<>>) ]

\* generate_report(start_date, end_date): no handler around the analyses
GenerateReportResult(preds, trades, history, period) ==
    LET prediction_analysis == AnalyzePredictions(preds, period)
        trading_analysis == AnalyzeTrading(trades, history, period)
        risk_analysis == AnalyzeRisk(history, period)
        generated == GenerateInsights(prediction_analysis, trading_analysis, risk_analysis)
    IN  IF trading_analysis.raised # "no" THEN [ result |-> trading_analysis.raised ]
        ELSE IF generated.raised # "no" THEN [ result |-> generated.raised ]
        ELSE [ result |-> "report",
               period |-> period,
               prediction_performance |-> prediction_analysis,
               trading_performance |-> trading_analysis,
               risk_metrics |-> risk_analysis,
               insights |-> generated.insights ]

\* the report or the exception handed to the caller
Reported(r) == [op |-> "report", result |-> r.result, report |-> r]

GenerateReport(period) ==
    /\ last' = Reported(GenerateReportResult(predictions, paper_trades,
                                             portfolio_history, period))
    /\ UNCHANGED <<config, initialized, portfolio, paper_trades, portfolio_history, calls>>
    /\ UNCHANGED <<tracker_vars, cache_vars, updating, backtest>>

GenerateReportCall == \E period \in Periods : GenerateReport(period)

\* the ledgers a report is generated from: up to two predictions of day 0,
\* pending or finalized on their 1-day return
AnalyzerPredictionRows ==
    {NewPrediction(d, 0) : d \in Directions}
    \cup {Finalize(NewPrediction(d, 0), 1, r) : d \in Directions, r \in ReturnInputs}

AnalyzerPredictions ==
    {<<>>} \cup {<<p>> : p \in AnalyzerPredictionRows}
           \cup {<<p, q>> : p, q \in AnalyzerPredictionRows}

\* the engine after no trade, a buy, and a buy sold at the same (a loss after
\* commission) or at a higher price
Traded(cfg) ==
    LET fresh == [portfolio |-> NewPortfolio(cfg), paper_trades |-> <<>>]
        bought == ExecuteTradeResult(cfg, fresh.portfolio, fresh.paper_trades,
                                     "005930", BUY, RInt(2000000), 2, <<1>>, TRUE)
        Sold(price) == ExecuteTradeResult(cfg, bought.portfolio, bought.paper_trades,
                                          "005930", SELL, price, 2, <<1>>, TRUE)
    IN  {fresh, [portfolio |-> bought.portfolio, paper_trades |-> bought.paper_trades]}
        \cup {[portfolio |-> Sold(price).portfolio,
               paper_trades |-> Sold(price).paper_trades] : price \in PriceInputs}

\* with and without one snapshot of the portfolio
AnalyzerStates(cfg) ==
    {[portfolio |-> t.portfolio, paper_trades |-> t.paper_trades,
      portfolio_history |-> <<>>] : t \in Traded(cfg)}
    \cup {[portfolio |-> SavePortfolioSnapshot(t.portfolio, <<>>).portfolio,
           paper_trades |-> t.paper_trades,
           portfolio_history |-> SavePortfolioSnapshot(t.portfolio, <<>>).portfolio_history]
          : t \in Traded(cfg)}

AnalyzerInit ==
    /\ config \in ConfigInputs
    /\ initialized = TRUE
    /\ \E st \in AnalyzerStates(config) :
          /\ portfolio = st.portfolio
          /\ paper_trades = st.paper_trades
          /\ portfolio_history = st.portfolio_history
    /\ calls = 0
    /\ last = [op |-> "construct", result |-> "done"]
    /\ predictions \in AnalyzerPredictions
    /\ day = 1
    /\ cache_initialized = FALSE
    /\ cache = <<>>
    /\ lock = 0
    /\ pending = {}
    /\ tasks = <<>>
    /\ now = 0
    /\ ops = 0
    /\ written = <<>>
    /\ updating = FALSE
    /\ backtest = <<>>

AnalyzerNext == GenerateReportCall

AnalyzerSpec == AnalyzerInit /\ [][AnalyzerNext]_vars

\* ---------------------------------------------------------------- json (cache)
\* Python values: a type and a payload; a text is a sequence of characters
PyNone == [type |-> "NoneType"]

PyBool(b) == [type |-> "bool", v |-> b]

PyInt(n) == [type |-> "int", v |-> n]

PyStr(chars) == [type |-> "str", v |-> chars]

PyList(items) == [type |-> "list", v |-> items]

PyTuple(items) == [type |-> "tuple", v |-> items]

\* a dict as its items in insertion order, each <<key, value>>
PyDict(items) == [type |-> "dict", v |-> items]

DigitChars == <<"0", "1", "2", "3", "4", "5", "6", "7", "8", "9">>

IsDigit(c) == \E i \in DOMAIN DigitChars : DigitChars[i] = c

DigitOf(c) == (CHOOSE i \in DOMAIN DigitChars : DigitChars[i] = c) - 1

\* str(n) of a non-negative int
RECURSIVE NatChars(_)
NatChars(n) ==
    IF n < 10 THEN <<DigitChars[n + 1]>>
    ELSE Append(NatChars(n \div 10), DigitChars[(n % 10) + 1])

IntChars(n) == IF n < 0 THEN <<"-">> \o NatChars(-n) ELSE NatChars(n)

\* int(text) of a text of digits
RECURSIVE NatOfChars(_)
NatOfChars(text) ==
    IF text = <<>> THEN 0
    ELSE 10 * NatOfChars(SubSeq(text, 1, Len(text) - 1)) + DigitOf(text[Len(text)])

\* the JSON grammar of an integer: an optional minus, no leading zero
IsNatText(text) ==
    /\ text # <<>>
    /\ \A i \in DOMAIN text : IsDigit(text[i])
    /\ Len(text) > 1 => text[1] # "0"

IsIntText(text) ==
    IF text # <<>> /\ text[1] = "-" THEN IsNatText(Tail(text)) ELSE IsNatText(text)

IntOfText(text) ==
    IF text[1] = "-" THEN 0 - NatOfChars(Tail(text)) ELSE NatOfChars(text)

RECURSIVE Join(_, _)
Join(texts, sep) ==
    IF texts = <<>> THEN <<>>
    ELSE IF Len(texts) = 1 THEN texts[1]
    ELSE texts[1] \o sep \o Join(Tail(texts), sep)

Quoted(chars) == <<"\"">> \o chars \o <<"\"">>

\* json.dumps(value, ensure_ascii=False): a tuple is written as a list, the
\* key of a dict as a string
RECURSIVE JsonText(_)
JsonText(value) ==
    IF value.type = "NoneType" THEN <<"n", "u", "l", "l">>
    ELSE IF value.type = "bool"
         THEN (IF value.v THEN <<"t", "r", "u", "e">> ELSE <<"f", "a", "l", "s", "e">>)
    ELSE IF value.type = "int" THEN IntChars(value.v)
    ELSE IF value.type = "str" THEN Quoted(value.v)
    ELSE IF value.type \in {"list", "tuple"}
         THEN <<"[">> \o Join([i \in DOMAIN value.v |-> JsonText(value.v[i])], <<",", " ">>)
              \o <<"]">>
    ELSE <<"{">>
         \o Join([i \in DOMAIN value.v |->
                    (IF value.v[i][1].type = "str" THEN JsonText(value.v[i][1])
                     ELSE Quoted(JsonText(value.v[i][1])))
                    \o <<":", " ">> \o JsonText(value.v[i][2])],
                 <<",", " ">>)
         \o <<"}">>

\* the pieces of a text between the separators that stand outside strings
\* and outside nested brackets
RECURSIVE SplitTop(_, _, _, _, _)
SplitTop(text, sep, depth, quoted, current) ==
    IF text = <<>> THEN <<current>>
    ELSE LET c == Head(text)
             rest == Tail(text)
         IN  IF c = "\"" THEN SplitTop(rest, sep, depth, ~quoted, Append(current, c))
             ELSE IF quoted THEN SplitTop(rest, sep, depth, quoted, Append(current, c))
             ELSE IF c \in {"[", "{"}
                  THEN SplitTop(rest, sep, depth + 1, quoted, Append(current, c))
             ELSE IF c \in {"]", "}"}
                  THEN SplitTop(rest, sep, depth - 1, quoted, Append(current, c))
             ELSE IF c = sep /\ depth = 0
                  THEN <<current>> \o SplitTop(rest, sep, 0, FALSE, <<>>)
             ELSE SplitTop(rest, sep, depth, quoted, Append(current, c))

\* JSON whitespace around a token
RECURSIVE Strip(_)
Strip(text) ==
    IF text # <<>> /\ text[1] = " " THEN Strip(Tail(text))
    ELSE IF text # <<>> /\ text[Len(text)] = " " THEN Strip(SubSeq(text, 1, Len(text) - 1))
    ELSE text

IsStringText(text) ==
    /\ Len(text) >= 2
    /\ text[1] = "\""
    /\ text[Len(text)] = "\""
    /\ \A i \in 2..(Len(text) - 1) : text[i] \notin {"\"", "\\"}

Inner(text) == SubSeq(text, 2, Len(text) - 1)

JSONDecodeError == [ok |-> FALSE]

Parsed(value) == [ok |-> TRUE, value |-> value]

\* json.loads(text): ints, null, true, false, strings without escapes, arrays
\* and objects; anything else is a JSONDecodeError
RECURSIVE JsonParse(_)
JsonParse(raw) ==
    LET text == Strip(raw)
    IN  IF text = <<"n", "u", "l", "l">> THEN Parsed(PyNone)
        ELSE IF text = <<"t", "r", "u", "e">> THEN Parsed(PyBool(TRUE))
        ELSE IF text = <<"f", "a", "l", "s", "e">> THEN Parsed(PyBool(FALSE))
        ELSE IF IsIntText(text) THEN Parsed(PyInt(IntOfText(text)))
        ELSE IF IsStringText(text) THEN Parsed(PyStr(Inner(text)))
        ELSE IF Len(text) >= 2 /\ text[1] = "[" /\ text[Len(text)] = "]"
        THEN IF Strip(Inner(text)) = <<>> THEN Parsed(PyList(<<>>))
             ELSE LET pieces == SplitTop(Inner(text), ",", 0, FALSE, <<>>)
                      items == [i \in DOMAIN pieces |-> JsonParse(pieces[i])]
                  IN  IF \A i \in DOMAIN items : items[i].ok
                      THEN Parsed(PyList([i \in DOMAIN items |-> items[i].value]))
                      ELSE JSONDecodeError
        ELSE IF Len(text) >= 2 /\ text[1] = "{" /\ text[Len(text)] = "}"
        THEN IF Strip(Inner(text)) = <<>> THEN Parsed(PyDict(<<>>))
             ELSE LET pieces == SplitTop(Inner(text), ",", 0, FALSE, <<>>)
                      pairs == [i \in DOMAIN pieces |-> SplitTop(pieces[i], ":", 0, FALSE, <<>>)]
                      Key(i) == Strip(pairs[i][1])
                      Val(i) == JsonParse(pairs[i][2])
                  IN  IF \A i \in DOMAIN pairs :
                            /\ Len(pairs[i]) = 2
                            /\ IsStringText(Key(i))
                            /\ Val(i).ok
                      THEN Parsed(PyDict([i \in DOMAIN pairs |->
                                            <<PyStr(Inner(Key(i))), Val(i).value>>]))
                      ELSE JSONDecodeError
        ELSE JSONDecodeError

\* a == b of Python: a bool is the int 1 or 0, a list never equals a tuple
PyEq(a, b) ==
    IF a.type \in {"bool", "int"} /\ b.type \in {"bool", "int"}
    THEN (IF a.type = "bool" THEN (IF a.v THEN 1 ELSE 0) ELSE a.v)
         = (IF b.type = "bool" THEN (IF b.v THEN 1 ELSE 0) ELSE b.v)
    ELSE a = b

\* ---------------------------------------------------------------- CacheManager
\* the coroutines one asyncio.gather runs at most
MaxTasks == 2

\* the cache operations started at most
MaxOps == 3

\* the ticks the clock advances at most; a tick is the time _cleanup_expired
\* sleeps between two runs
MaxNow == 2

\* asyncio.sleep(3600) of _cleanup_expired, in ticks
CleanupPeriod == 1

CacheKeys == {"k1", "k2"}

\* ttl, in ticks
TtlInputs == {2}

\* the values the coroutines write
TaskValues == {PyInt(7), PyStr(<<"1", "2", "3">>)}

\* value_str: a str is stored as it is, anything else as its json.dumps
ValueStr(value) == IF value.type = "str" THEN value.v ELSE JsonText(value)

\* INSERT OR REPLACE INTO cache (key, value, expires_at, created_at)
SetResult(table, key, value, ttl, t) ==
    Put(table, key, [value |-> ValueStr(value), expires_at |-> t + ttl, access_count |-> 0])

\* a variant of the SELECT without the condition on expires_at
SelectRowAnyAge(table, key, t) ==
    IF key \in DOMAIN table THEN <<table[key]>> ELSE <<>>

\* SELECT value, expires_at FROM cache WHERE key = ? AND expires_at > ?
SelectRow(table, key, t) ==
    IF key \in DOMAIN table /\ table[key].expires_at > t THEN <<table[key]>> ELSE <<>>

\* UPDATE cache SET access_count = access_count + 1 WHERE key = ?
Touch(table, key) ==
    IF key \in DOMAIN table
    THEN [table EXCEPT ![key].access_count = @ + 1]
    ELSE table

\* json.loads(row['value']), the text itself on JSONDecodeError
Decode(text) ==
    LET parsed == JsonParse(text)
    IN  IF parsed.ok THEN parsed.value ELSE PyStr(text)

\* get(key) run alone at time t: the value returned and the table after it
GetResult(table, key, t) ==
    LET row == SelectRow(table, key, t)
    IN  IF row = <<>> THEN [hit |-> FALSE, value |-> PyNone, cache |-> table]
        ELSE [hit |-> TRUE, value |-> Decode(row[1].value), cache |-> Touch(table, key)]

Running == [type |-> "running"]

CacheError == [type |-> "CacheError"]

NewTask(op, key, value, ttl) ==
    [op |-> op, key |-> key, value |-> value, ttl |-> ttl,
     pc |-> "start", row |-> <<>>, result |-> Running]

SetTasks == {NewTask("set", k, v, ttl) : k \in CacheKeys, v \in TaskValues, ttl \in TtlInputs}

GetTasks == {NewTask("get", k, PyNone, 0) : k \in CacheKeys}

Done(task) == task.pc = "done"

\* initialize(): the connection is opened and the table created
CacheInitialize ==
    /\ ~cache_initialized
    /\ cache_initialized' = TRUE
    /\ UNCHANGED <<cache, lock, pending, tasks, now, ops, written>>

\* asyncio.gather(*coroutines), awaited: the coroutines before it have returned
Gather(batch) ==
    /\ \A i \in DOMAIN tasks : Done(tasks[i])
    /\ ops + Len(batch) <= MaxOps
    /\ tasks' = batch
    /\ ops' = ops + Len(batch)
    /\ UNCHANGED <<cache_initialized, cache, lock, pending, now, written>>

\* _get_connection before initialize(): set raises CacheError, get logs and
\* returns None
Refused(i) ==
    /\ tasks[i].pc = "start"
    /\ ~cache_initialized
    /\ tasks' = [tasks EXCEPT ![i].pc = "done",
                              ![i].result = IF tasks[i].op = "set" THEN CacheError ELSE PyNone]
    /\ UNCHANGED <<cache_initialized, cache, lock, pending, now, ops, written>>

\* a variant of the lock that admits a coroutine while another holds it
LockAdmitsAlways(holder) == TRUE

\* asyncio.Lock: acquired only while free
LockAdmits(holder) == holder = 0

\* async with self._lock
Acquire(i) ==
    /\ tasks[i].pc = "start"
    /\ cache_initialized
    /\ LockAdmits(lock)
    /\ lock' = i
    /\ tasks' = [tasks EXCEPT ![i].pc = IF tasks[i].op = "set" THEN "insert" ELSE "select"]
    /\ UNCHANGED <<cache_initialized, cache, pending, now, ops, written>>

\* set: await conn.execute(INSERT OR REPLACE ...)
Insert(i) ==
    /\ tasks[i].pc = "insert"
    /\ cache' = SetResult(cache, tasks[i].key, tasks[i].value, tasks[i].ttl, now)
    /\ pending' = pending \cup {i}
    /\ tasks' = [tasks EXCEPT ![i].pc = "commit"]
    /\ UNCHANGED <<cache_initialized, lock, now, ops, written>>

\* get: await conn.execute(SELECT ...); return None without a row
Select(i) ==
    /\ tasks[i].pc = "select"
    /\ LET row == SelectRow(cache, tasks[i].key, now)
       IN  IF row = <<>>
           THEN /\ tasks' = [tasks EXCEPT ![i].pc = "done", ![i].result = PyNone]
                /\ lock' = IF lock = i THEN 0 ELSE lock
           ELSE /\ tasks' = [tasks EXCEPT ![i].pc = "update", ![i].row = row]
                /\ UNCHANGED lock
    /\ UNCHANGED <<cache_initialized, cache, pending, now, ops, written>>

\* get: await conn.execute(UPDATE ...)
Update(i) ==
    /\ tasks[i].pc = "update"
    /\ cache' = Touch(cache, tasks[i].key)
    /\ pending' = pending \cup {i}
    /\ tasks' = [tasks EXCEPT ![i].pc = "commit"]
    /\ UNCHANGED <<cache_initialized, lock, now, ops, written>>

\* await conn.commit(), then the return and the release of the lock
Commit(i) ==
    /\ tasks[i].pc = "commit"
    /\ pending' = {}
    /\ lock' = IF lock = i THEN 0 ELSE lock
    /\ IF tasks[i].op = "set"
       THEN /\ tasks' = [tasks EXCEPT ![i].pc = "done", ![i].result = PyNone]
            /\ written' = Put(written, tasks[i].key, tasks[i].value)
       ELSE /\ tasks' = [tasks EXCEPT ![i].pc = "done",
                                      ![i].result = Decode(tasks[i].row[1].value)]
            /\ UNCHANGED written
    /\ UNCHANGED <<cache_initialized, cache, now, ops>>

\* DELETE FROM cache WHERE expires_at < ?; the second DELETE of the run removes
\* rows with expires_at < ? only, which the first has removed
CleanupResult(table, t) ==
    [key \in {k \in DOMAIN table : ~(table[k].expires_at < t)} |-> table[key]]

\* one run of the loop of _cleanup_expired, started by initialize(): after its
\* sleep it takes the lock, deletes and commits
CleanupExpired ==
    /\ cache_initialized
    /\ now >= CleanupPeriod
    /\ LockAdmits(lock)
    /\ cache' = CleanupResult(cache, now)
    /\ pending' = {}
    /\ UNCHANGED <<cache_initialized, lock, tasks, now, ops, written>>

\* a tick passes
Tick ==
    /\ now < MaxNow
    /\ now' = now + 1
    /\ UNCHANGED <<cache_initialized, cache, lock, pending, tasks, ops, written>>

Batches ==
    UNION {[1..n -> SetTasks \cup GetTasks] : n \in 1..MaxTasks}

GatherCall == \E batch \in Batches : Gather(batch)

CacheOnly == UNCHANGED <<engine_vars, tracker_vars, updating, backtest>>

CacheNext ==
    \/ CacheInitialize /\ CacheOnly
    \/ GatherCall /\ CacheOnly
    \/ \E i \in DOMAIN tasks : Refused(i) /\ CacheOnly
    \/ \E i \in DOMAIN tasks : Acquire(i) /\ CacheOnly
    \/ \E i \in DOMAIN tasks : Insert(i) /\ CacheOnly
    \/ \E i \in DOMAIN tasks : Select(i) /\ CacheOnly
    \/ \E i \in DOMAIN tasks : Update(i) /\ CacheOnly
    \/ \E i \in DOMAIN tasks : Commit(i) /\ CacheOnly
    \/ Tick /\ CacheOnly

CacheSpec == Init /\ [][CacheNext]_vars

\* ------------------------------------------- CacheManager, one call at a time
\* ttl, in ticks, of the calls awaited one at a time
ExpiryTtls == {1, 2}

\* the coroutine of an awaited call, returned
Returned(op, key, value, ttl, result) ==
    [NewTask(op, key, value, ttl) EXCEPT !.pc = "done", !.result = result]

\* await cache.set(key, value, ttl)
AwaitSet(key, value, ttl) ==
    /\ cache_initialized
    /\ \A i \in DOMAIN tasks : Done(tasks[i])
    /\ ops < MaxOps
    /\ cache' = SetResult(cache, key, value, ttl, now)
    /\ written' = Put(written, key, value)
    /\ tasks' = <<Returned("set", key, value, ttl, PyNone)>>
    /\ ops' = ops + 1
    /\ UNCHANGED <<cache_initialized, lock, pending, now>>

\* the effect of an awaited get(key) whose result is g
AwaitGetEffect(key, g) ==
    /\ cache_initialized
    /\ \A i \in DOMAIN tasks : Done(tasks[i])
    /\ ops < MaxOps
    /\ cache' = g.cache
    /\ tasks' = <<Returned("get", key, PyNone, 0, g.value)>>
    /\ ops' = ops + 1
    /\ UNCHANGED <<cache_initialized, lock, pending, now, written>>

\* await cache.get(key)
AwaitGet(key) == AwaitGetEffect(key, GetResult(cache, key, now))

AwaitSetCall ==
    \E key \in CacheKeys, value \in TaskValues, ttl \in ExpiryTtls : AwaitSet(key, value, ttl)

AwaitGetCall == \E key \in CacheKeys : AwaitGet(key)

ExpiryNext ==
    \/ CacheInitialize /\ CacheOnly
    \/ AwaitSetCall /\ CacheOnly
    \/ AwaitGetCall /\ CacheOnly
    \/ CleanupExpired /\ CacheOnly
    \/ Tick /\ CacheOnly

ExpirySpec == Init /\ [][ExpiryNext]_vars

\* ================================================================= properties
\* the inputs the properties of one call of _execute_trade range over
TradeInputs == [ticker : Tickers, price : PriceInputs, quantity : QuantityInputs]

\* the shares of a ticker the portfolio holds
Held(ticker) ==
    IF ticker \in DOMAIN portfolio.positions
    THEN portfolio.positions[ticker].quantity
    ELSE 0

\* price * quantity, and the commission on it
Gross(order) == RMul(order.price, RInt(order.quantity))

Fee(order) == RMul(Gross(order), config.commission_rate)

\* the call _execute_trade(order, action) made in the current state, its
\* prediction saved and its record written
Recorded(order, action) ==
    ExecuteTradeResult(config, portfolio, paper_trades, order.ticker, action,
                       order.price, order.quantity, <<1>>, TRUE)

\* how the write of the record goes: the prediction saved or not (<<>>), the
\* INSERT succeeding or not
Writes == {<<<<1>>, TRUE>>, <<<<1>>, FALSE>>, <<<<>>, TRUE>>}

\* the record a successful call appended
NewTrade(r) == r.paper_trades[Len(r.paper_trades)]

LastTrade == paper_trades[Len(paper_trades)]

\* C1: cash is never negative, and a BUY whose cost price * quantity *
\* (1 + commission_rate) exceeds the cash is rejected with an insufficient-cash
\* error, nothing being bought: no smaller quantity is bought in its place.
C1_CashNeverNegative ==
    /\ ~RLt(portfolio.cash, Zero)
    /\ \A order \in TradeInputs :
        LET r == Recorded(order, BUY)
        IN  /\ ~RLt(r.portfolio.cash, Zero)
            /\ RGt(RMul(Gross(order), RAdd(RInt(1), config.commission_rate)),
                   portfolio.cash)
               => /\ r.result = "InsufficientCash"
                  /\ r.portfolio = portfolio
                  /\ r.paper_trades = paper_trades

\* a BUY was rejected for its cost after an earlier BUY had spent cash
C1_Witness ==
    /\ last.result = "InsufficientCash"
    /\ RLt(portfolio.cash, portfolio.initial_capital)
    /\ ~RLt(portfolio.cash, Zero)

\* the sum over the held tickers of quantity * current_price
RECURSIVE HoldingsAtCurrentPrice(_, _)
HoldingsAtCurrentPrice(positions, tickers) ==
    IF tickers = {} THEN Zero
    ELSE LET t == CHOOSE x \in tickers : TRUE
         IN  RAdd(RMul(RInt(positions[t].quantity), positions[t].current_price),
                  HoldingsAtCurrentPrice(positions, tickers \ {t}))

\* C2: after update_portfolio_values, total_value = cash + the sum over the
\* held positions of quantity * current_price, also when the price map omits
\* held tickers, whose current_price is then the one stored before the call.
C2_TotalValueAfterUpdate ==
    /\ last.op = "update"
       => portfolio.total_value =
              RAdd(portfolio.cash,
                   HoldingsAtCurrentPrice(portfolio.positions, DOMAIN portfolio.positions))
    /\ \A current_prices \in AllPriceMaps :
        LET r == UpdatePortfolioValuesResult(portfolio, portfolio_history,
                                             current_prices).portfolio
        IN  /\ r.cash = portfolio.cash
            /\ DOMAIN r.positions = DOMAIN portfolio.positions
            /\ \A t \in DOMAIN r.positions :
                /\ r.positions[t].quantity = portfolio.positions[t].quantity
                /\ r.positions[t].current_price =
                       IF t \in DOMAIN current_prices
                       THEN current_prices[t]
                       ELSE portfolio.positions[t].current_price
            /\ r.total_value =
                   RAdd(r.cash, HoldingsAtCurrentPrice(r.positions, DOMAIN r.positions))

\* update_portfolio_values has run with a price map that omitted a held ticker
\* (its entry carries no unrealized_pnl), and a snapshot of the total is saved
C2_Witness ==
    /\ last.op = "update"
    /\ \E t \in DOMAIN portfolio.positions :
        "unrealized_pnl" \notin DOMAIN portfolio.positions[t]
    /\ portfolio_history # <<>>
    /\ portfolio_history[Len(portfolio_history)].total_value = portfolio.total_value

\* C3: a snapshot is written after every executed BUY or SELL and after every
\* update_portfolio_values, so that a restart restores the cash and the
\* positions the engine held in memory before it.
C3_RestartKeepsState ==
    [][Restart => /\ portfolio'.cash = portfolio.cash
                  /\ portfolio'.positions = portfolio.positions]_vars

\* C4: a snapshot saved and then restored, nothing happening in between, gives
\* back the cash, the total_value and every position (quantity, avg_price,
\* total_cost, current_price) exactly.
C4_SnapshotRoundTrip ==
    /\ LET saved == SavePortfolioSnapshot(portfolio, portfolio_history)
           restored == RestorePortfolio(NewPortfolio(config), saved.portfolio_history)
       IN  /\ restored.cash = portfolio.cash
           /\ restored.total_value = portfolio.total_value
           /\ DOMAIN restored.positions = DOMAIN portfolio.positions
           /\ \A t \in DOMAIN portfolio.positions :
               /\ DOMAIN restored.positions[t] = DOMAIN portfolio.positions[t]
               /\ \A key \in {"quantity", "avg_price", "total_cost", "current_price"} :
                   restored.positions[t][key] = portfolio.positions[t][key]
    /\ last.op = "update"
       => LET restored == RestorePortfolio(NewPortfolio(config), portfolio_history)
          IN  /\ restored.cash = portfolio.cash
              /\ restored.total_value = portfolio.total_value
              /\ restored.positions = portfolio.positions

\* a restart has restored, from its snapshot, a portfolio that holds a position
C4_Witness ==
    /\ last.op = "restart"
    /\ portfolio_history # <<>>
    /\ portfolio.positions # <<>>
    /\ portfolio.cash = portfolio_history[Len(portfolio_history)].cash

\* whether the SELL of order in the current state was charged tax, or the
\* commission alone: the cash it adds, the realized_pnl and the commission it
\* records
SellTaxed(order, r) ==
    LET tax == RMul(Gross(order), config.tax_rate)
        gain == RMul(RSub(order.price, portfolio.positions[order.ticker].avg_price),
                     RInt(order.quantity))
    IN  /\ r.portfolio.cash =
               RAdd(portfolio.cash, RSub(RSub(Gross(order), Fee(order)), tax))
        /\ NewTrade(r).realized_pnl = RSub(RSub(gain, Fee(order)), tax)
        /\ NewTrade(r).commission = RAdd(Fee(order), tax)

SellUntaxed(order, r) ==
    LET gain == RMul(RSub(order.price, portfolio.positions[order.ticker].avg_price),
                     RInt(order.quantity))
    IN  /\ r.portfolio.cash = RAdd(portfolio.cash, RSub(Gross(order), Fee(order)))
        /\ NewTrade(r).realized_pnl = RSub(gain, Fee(order))
        /\ NewTrade(r).commission = Fee(order)

\* C5 as stated: a SELL is charged tax exactly when (price - avg_price) *
\* quantity is positive, and only the commission otherwise. The code decides
\* on the PnL after the commission, so this fails.
C5_TaxOnGrossGain ==
    \A order \in TradeInputs :
        LET r == Recorded(order, SELL)
            gain == RMul(RSub(order.price, portfolio.positions[order.ticker].avg_price),
                         RInt(order.quantity))
        IN  r.result = "trade"
            => IF RGt(gain, Zero) THEN SellTaxed(order, r) ELSE SellUntaxed(order, r)

\* C5: a SELL is charged tax (trade_value * tax_rate, taken from the proceeds
\* and the realized_pnl and added to the recorded commission) exactly when
\* (price - avg_price) * quantity - commission is positive; a SELL whose PnL
\* after the commission is zero or negative is charged the commission alone.
C5_TaxOnNetGain ==
    \A order \in TradeInputs :
        LET r == Recorded(order, SELL)
            gain == RMul(RSub(order.price, portfolio.positions[order.ticker].avg_price),
                         RInt(order.quantity))
        IN  r.result = "trade"
            => IF RGt(RSub(gain, Fee(order)), Zero)
               THEN SellTaxed(order, r)
               ELSE SellUntaxed(order, r)

\* a SELL above the average price was recorded with the commission alone: its
\* gain did not cover the commission
C5_Witness ==
    /\ last.result = "trade"
    /\ LastTrade.action = SELL
    /\ LastTrade.ticker \in DOMAIN portfolio.positions
    /\ RGt(LastTrade.price, portfolio.positions[LastTrade.ticker].avg_price)
    /\ LastTrade.commission = RMul(LastTrade.total_value, config.commission_rate)
    /\ RLt(LastTrade.realized_pnl, Zero)

\* C6 as stated: a successful BUY of quantity q at price p takes p * q *
\* (1 + commission_rate) from the cash, adds q to the quantity held, makes
\* avg_price (old_qty * old_avg + q * p) / (old_qty + q) and records a
\* realized_pnl of 0. The avg_price is computed from total_cost, which a SELL
\* leaves as it was, so this fails for a BUY after a partial SELL.
C6_BuyEffects ==
    \A order \in TradeInputs :
        LET r == Recorded(order, BUY)
            old_qty == Held(order.ticker)
            old_avg == IF old_qty > 0
                       THEN portfolio.positions[order.ticker].avg_price
                       ELSE Zero
            after == r.portfolio.positions[order.ticker]
        IN  r.result = "trade"
            => /\ r.portfolio.cash =
                      RSub(portfolio.cash,
                           RMul(Gross(order), RAdd(RInt(1), config.commission_rate)))
               /\ after.quantity = old_qty + order.quantity
               /\ after.avg_price =
                      RDiv(RAdd(RMul(RInt(old_qty), old_avg), Gross(order)),
                           RInt(old_qty + order.quantity))
               /\ NewTrade(r).realized_pnl = Zero

\* C7: a successful SELL of quantity q at price p records realized_pnl =
\* (p - avg_price) * q - commission - tax and adds p * q - commission - tax to
\* the cash, the commission being p * q * commission_rate and the tax either
\* p * q * tax_rate or 0; the quantity held falls by q.
C7_SellEffects ==
    \A order \in TradeInputs :
        LET r == Recorded(order, SELL)
            gain == RMul(RSub(order.price, portfolio.positions[order.ticker].avg_price),
                         RInt(order.quantity))
        IN  r.result = "trade"
            => /\ \E tax \in {Zero, RMul(Gross(order), config.tax_rate)} :
                   /\ NewTrade(r).realized_pnl = RSub(RSub(gain, Fee(order)), tax)
                   /\ r.portfolio.cash =
                          RAdd(portfolio.cash, RSub(RSub(Gross(order), Fee(order)), tax))
               /\ NewTrade(r).position_after = Held(order.ticker) - order.quantity
               /\ IF order.quantity = Held(order.ticker)
                  THEN order.ticker \notin DOMAIN r.portfolio.positions
                  ELSE r.portfolio.positions[order.ticker].quantity =
                           Held(order.ticker) - order.quantity

\* a SELL of part of a position was recorded with tax charged
C7_Witness ==
    /\ last.result = "trade"
    /\ LastTrade.action = SELL
    /\ LastTrade.position_after > 0
    /\ RGt(LastTrade.commission, RMul(LastTrade.total_value, config.commission_rate))
    /\ LastTrade.cash_after = portfolio.cash

\* C8: no ticker is held with a quantity of 0: a SELL that brings the quantity
\* to 0 removes the ticker from the positions, whether or not its record gets
\* written.
C8_NoEmptyPositions ==
    /\ \A t \in DOMAIN portfolio.positions : portfolio.positions[t].quantity > 0
    /\ \A order \in TradeInputs, write \in Writes :
        LET r == ExecuteTradeResult(config, portfolio, paper_trades, order.ticker, SELL,
                                    order.price, order.quantity, write[1], write[2])
        IN  /\ \A t \in DOMAIN r.portfolio.positions :
                   r.portfolio.positions[t].quantity > 0
            /\ (order.quantity = Held(order.ticker))
               => order.ticker \notin DOMAIN r.portfolio.positions

\* a whole position was sold and its ticker is gone from the positions
C8_Witness ==
    /\ last.result = "trade"
    /\ LastTrade.action = SELL
    /\ LastTrade.position_before > 0
    /\ LastTrade.position_after = 0
    /\ LastTrade.ticker \notin DOMAIN portfolio.positions

\* C9: a SELL of more shares than are held raises an insufficient-shares
\* error, a BUY costing more than the cash an insufficient-cash error, and
\* each leaves the cash, the positions and the trades as they were; no other
\* trade raises either.
C9_RejectedLeavesState ==
    \A order \in TradeInputs, action \in {BUY, SELL}, write \in Writes :
        LET r == ExecuteTradeResult(config, portfolio, paper_trades, order.ticker, action,
                                    order.price, order.quantity, write[1], write[2])
            short == action = SELL /\ order.quantity > Held(order.ticker)
            poor == action = BUY /\ RGt(RAdd(Gross(order), Fee(order)), portfolio.cash)
        IN  /\ r.result = "InsufficientShares" <=> short
            /\ r.result = "InsufficientCash" <=> poor
            /\ (short \/ poor)
               => /\ r.portfolio.cash = portfolio.cash
                  /\ r.portfolio.positions = portfolio.positions
                  /\ r.paper_trades = paper_trades

\* a SELL of more shares than the position held was rejected
C9_Witness ==
    /\ last = [op |-> "execute", result |-> "InsufficientShares"]
    /\ portfolio.positions # <<>>
    /\ \E order \in Orders :
        /\ order.ticker \in DOMAIN portfolio.positions
        /\ order.quantity > portfolio.positions[order.ticker].quantity

\* the return of a held position on its average price is below -stop_loss, or
\* above take_profit
StopLoss(ticker) ==
    LET position == portfolio.positions[ticker]
    IN  RLt(RSub(position.current_price, position.avg_price),
            RNeg(RMul(config.stop_loss, position.avg_price)))

TakeProfit(ticker) ==
    LET position == portfolio.positions[ticker]
    IN  RGt(RSub(position.current_price, position.avg_price),
            RMul(config.take_profit, position.avg_price))

\* C10: _determine_action decides in this order: HOLD if the confidence is
\* below confidence_threshold; else BUY if probability > 0.65 and the ticker
\* is not held; else SELL if probability < 0.35 and it is held; else SELL if
\* it is held and its return is below -stop_loss; else SELL if it is held and
\* its return is above take_profit; else HOLD. BUY is never decided for a
\* ticker held, nor SELL for one not held.
C10_ActionPriority ==
    \A ticker \in Tickers, probability \in ProbabilityInputs, confidence \in ConfidenceInputs :
        LET action == DetermineAction(config, portfolio.positions, ticker,
                                      probability, confidence)
            held == Held(ticker) > 0
            confident == ~RLt(confidence, config.confidence_threshold)
            up == RGt(probability, Rat(65, 100))
            down == RLt(probability, Rat(35, 100))
        IN  /\ ~confident => action = HOLD
            /\ confident /\ ~held => action = (IF up THEN BUY ELSE HOLD)
            /\ confident /\ held /\ down => action = SELL
            /\ confident /\ held /\ ~down
               => action = (IF StopLoss(ticker) \/ TakeProfit(ticker) THEN SELL ELSE HOLD)
            /\ action = BUY => ~held
            /\ action = SELL => held

\* process_prediction has sold a held position on a prediction
C10_Witness ==
    /\ last = [op |-> "process", result |-> "trade"]
    /\ LastTrade.action = SELL
    /\ LastTrade.position_before > 0
    /\ LastTrade.position_after = 0

\* C11: a BUY is sized 0 when min(total_value * max_position_size, cash * 0.95)
\* is below min_trade_value and else floor of that minimum over the price; a
\* SELL is sized the whole quantity held.
C11_TradeSizing ==
    \A ticker \in Tickers, price \in SizingPrices, cash \in SizingCash \cup {portfolio.cash} :
        LET pf == [portfolio EXCEPT !.cash = cash]
            by_size == RMul(pf.total_value, config.max_position_size)
            by_cash == RMul(cash, Rat(95, 100))
            budget == IF RLt(by_cash, by_size) THEN by_cash ELSE by_size
            bought == CalculateQuantity(config, pf, ticker, price, BUY)
        IN  /\ RLt(budget, config.min_trade_value) => bought = 0
            /\ ~RLt(budget, config.min_trade_value)
               => /\ ~RGt(RMul(RInt(bought), price), budget)
                  /\ RGt(RMul(RInt(bought + 1), price), budget)
            /\ CalculateQuantity(config, pf, ticker, price, SELL) = Held(ticker)

\* process_prediction has bought the one share that a fifth of the portfolio's
\* value pays for
C11_Witness ==
    /\ last = [op |-> "process", result |-> "trade"]
    /\ LastTrade.action = BUY
    /\ LastTrade.quantity = 1
    /\ LastTrade.cash_before = config.initial_capital
    /\ ~RGt(LastTrade.total_value, RMul(config.initial_capital, config.max_position_size))

\* C12 as stated: process_prediction returns None and leaves the cash, the
\* positions and the trades as they were when the action decided is HOLD or
\* the quantity sized is 0, and else executes one trade of that action and
\* quantity at the price given and returns it. A prediction without an id is
\* applied to the portfolio and then fails to be recorded, so this fails.
C12_ProcessPrediction ==
    \A ticker \in Tickers, prediction \in Predictions,
       prediction_id \in PredictionIdInputs, current_price \in PriceInputs :
        LET r == ProcessPredictionResult(config, portfolio, paper_trades, ticker,
                                         prediction.probability, prediction.confidence,
                                         prediction_id, current_price, TRUE)
            action == DetermineAction(config, portfolio.positions, ticker,
                                      prediction.probability, prediction.confidence)
            quantity == CalculateQuantity(config, portfolio, ticker, current_price, action)
        IN  IF action = HOLD \/ quantity = 0
            THEN /\ r.result = "none"
                 /\ r.portfolio = portfolio
                 /\ r.paper_trades = paper_trades
            ELSE /\ r.result = "trade"
                 /\ Len(r.paper_trades) = Len(paper_trades) + 1
                 /\ NewTrade(r).ticker = ticker
                 /\ NewTrade(r).action = action
                 /\ NewTrade(r).quantity = quantity
                 /\ NewTrade(r).price = current_price

\* C13 as stated: close_position of a ticker held returns a recorded SELL of
\* the whole quantity held, after which the ticker is not held; of a ticker
\* not held it returns None and changes nothing. The SELL is applied to the
\* portfolio but its record, lacking a prediction_id, is never built, so this
\* fails.
C13_ClosePosition ==
    \A ticker \in Tickers :
        LET r == ClosePositionResult(config, portfolio, paper_trades, ticker)
        IN  IF Held(ticker) > 0
            THEN /\ r.result = "trade"
                 /\ Len(r.paper_trades) = Len(paper_trades) + 1
                 /\ NewTrade(r).action = SELL
                 /\ NewTrade(r).quantity = Held(ticker)
                 /\ ticker \notin DOMAIN r.portfolio.positions
            ELSE /\ r.result = "none"
                 /\ r.portfolio = portfolio
                 /\ r.paper_trades = paper_trades

\* C14 as stated: when the record of a trade cannot be written, the trade is
\* not applied: the cash and the positions after the failed call are those
\* before it. The portfolio is changed before the record is written and is
\* not put back, so this fails.
C14_FailedWriteLeavesState ==
    \A order \in TradeInputs, action \in {BUY, SELL} :
        LET r == ExecuteTradeResult(config, portfolio, paper_trades, order.ticker, action,
                                    order.price, order.quantity, <<1>>, FALSE)
        IN  r.result = "StorageError"
            => /\ r.portfolio.cash = portfolio.cash
               /\ r.portfolio.positions = portfolio.positions

\* an outcome of one ticker of a batch that is an error caught and logged
Failed(result) == result \notin {"trade", "none", "skipped"}

\* C15 as stated: in a batch over a watchlist an error met by one ticker never
\* stops the batch, every ticker of the watchlist being attempted in turn, and
\* the ticker that fails leaves the portfolio as it was. A trade whose record
\* cannot be written has changed the portfolio already, so the last part fails.
C15_BatchIsolation ==
    /\ \A watchlist \in Watchlists, events \in [Tickers -> TickerEvents] :
        LET r == GenerateDailyPredictionsResult(config, portfolio, paper_trades,
                                                watchlist, events)
        IN  /\ Len(r.outcomes) = Len(watchlist)
            /\ \A i \in DOMAIN watchlist : r.outcomes[i].ticker = watchlist[i]
    /\ \A ticker \in Tickers, event \in TickerEvents :
        LET one == GenerateOne(config, portfolio, paper_trades, ticker, event)
        IN  Failed(one.result) => one.portfolio = portfolio

\* C16: a prediction is saved pending, its status leaves pending only for
\* correct, incorrect or expired, and once it has left pending no check of any
\* horizon, in any order and however often repeated, changes it again.
C16_StatusMonotone ==
    [][/\ \A i \in DOMAIN predictions :
            /\ i \in DOMAIN predictions'
            /\ predictions[i].status # PENDING
                 => predictions'[i].status = predictions[i].status
            /\ predictions'[i].status \in PredictionStatus
       /\ \A i \in DOMAIN predictions' \ DOMAIN predictions :
            predictions'[i].status = PENDING]_vars

\* a finalized prediction whose later horizon was recorded with the opposite
\* sign of the 1-day return
C16_Witness ==
    \E i \in DOMAIN predictions :
        /\ predictions[i].status = CORRECT
        /\ predictions[i].predicted_direction = "up"
        /\ predictions[i].actual_return_1d = <<3>>
        /\ predictions[i].actual_return_3d = <<-2>>
        /\ predictions[i].actual_return_7d = <<-2>>

\* no prediction, no trade and no snapshot of the ledgers lies in the period
EmptyPeriod(period) ==
    /\ SelectSeq(predictions, LAMBDA p : /\ period.start <= p.prediction_date
                                         /\ p.prediction_date <= period.end) = <<>>
    /\ RowsIn(paper_trades, period) = <<>>
    /\ RowsIn(portfolio_history, period) = <<>>

\* C17: generate_report over a period that contains no predictions, no trades
\* and no snapshots completes, and the metrics of its report are zero.
C17_EmptyReportIsZero ==
    \A period \in Periods :
        EmptyPeriod(period) =>
            LET report == GenerateReportResult(predictions, paper_trades,
                                               portfolio_history, period)
            IN  /\ report.result = "report"
                /\ report.risk_metrics = ZeroRisk
                /\ report.trading_performance.win_statistics.win_rate = Zero
                /\ report.trading_performance.portfolio_performance.period_return = Zero
                /\ report.prediction_performance.summary.total_predictions = 0

\* C18: get_portfolio_summary changes no field of the portfolio, and a second
\* call right after the first returns the same summary.
C18_SummaryIdempotent ==
    LET first == GetPortfolioSummaryResult(portfolio)
        second == GetPortfolioSummaryResult(first.portfolio)
    IN  /\ first.portfolio = portfolio
        /\ second.summary = first.summary
        /\ second.portfolio = portfolio
        /\ last.op = "summary" => last.summary = first.summary

\* a summary was returned of a holding bought and not yet revalued, whose
\* unrealized_pnl is read by default
C18_Witness ==
    /\ last.op = "summary"
    /\ \E t \in DOMAIN portfolio.positions :
          /\ "unrealized_pnl" \notin DOMAIN portfolio.positions[t]
          /\ last.summary.positions[t].unrealized_pnl = Zero
          /\ last.summary.positions[t].quantity = portfolio.positions[t].quantity

\* the values a caller may store: strings, among them strings that read as
\* JSON, and JSON-serializable values
CacheValues ==
    { PyStr(<<"t", "e", "s", "t">>), PyStr(<<"1", "2", "3">>), PyStr(<<"0", "1">>),
      PyStr(<<"n", "u", "l", "l">>), PyStr(<<"[", "]">>),
      PyInt(123), PyInt(0), PyInt(-5), PyBool(TRUE), PyNone,
      PyList(<<PyInt(1), PyStr(<<"a">>)>>),
      PyTuple(<<PyInt(1), PyInt(2)>>),
      PyDict(<<<<PyStr(<<"n", "a", "m", "e">>), PyStr(<<"t", "e", "s", "t">>)>>,
               <<PyStr(<<"v", "a", "l", "u", "e">>), PyInt(123)>>>>),
      PyDict(<<<<PyInt(1), PyStr(<<"a">>)>>>>) }

\* get(key) at dt ticks after set(key, value, ttl), nothing in between
RoundTrip(key, value, ttl, dt) ==
    GetResult(SetResult(cache, key, value, ttl, now), key, now + dt)

\* C19: get(k) after set(k, v, ttl), with no set or delete of k in between and
\* before the expiry, returns a value equal to v, for every string and every
\* JSON-serializable value v.
C19_CacheRoundTrip ==
    \A key \in CacheKeys, value \in CacheValues, ttl \in TtlInputs :
        \A dt \in 0..(ttl - 1) :
            /\ RoundTrip(key, value, ttl, dt).hit
            /\ PyEq(RoundTrip(key, value, ttl, dt).value, value)

\* no coroutine other than the holder of the lock is between its first
\* statement and its commit, and only the holder has uncommitted statements
Serialized ==
    /\ \A i \in DOMAIN tasks :
          tasks[i].pc \in {"insert", "select", "update", "commit"} => lock = i
    /\ \A i \in pending : lock = i

\* the set of the gather to this key, if it is the only one
OnlySetTo(i) ==
    /\ tasks[i].op = "set"
    /\ \A j \in DOMAIN tasks : tasks[j].op = "set" /\ tasks[j].key = tasks[i].key => j = i

\* C20: sets and gets issued concurrently are serialized by the lock; when
\* the sets of a gather to distinct keys have completed no write is lost, and
\* a get of a later gather returns exactly the value written to its key.
C20_ConcurrentSetGet ==
    /\ Serialized
    /\ (\A j \in DOMAIN tasks : Done(tasks[j])) =>
          \A i \in DOMAIN tasks :
              OnlySetTo(i) /\ tasks[i].result = PyNone =>
                  /\ tasks[i].key \in DOMAIN cache
                  /\ cache[tasks[i].key].value = ValueStr(tasks[i].value)
                  /\ written[tasks[i].key] = tasks[i].value
    /\ \A i \in DOMAIN tasks :
          /\ tasks[i].op = "get"
          /\ Done(tasks[i])
          /\ tasks[i].row # <<>>
          /\ \A j \in DOMAIN tasks : tasks[j].op = "set" => tasks[j].key # tasks[i].key
          => /\ tasks[i].key \in DOMAIN written
             /\ PyEq(tasks[i].result, written[tasks[i].key])

\* the gets of the running gather: no set is among them
OnlyGets == \A j \in DOMAIN tasks : tasks[j].op = "get"

\* get(key) at dt ticks after set(key, value, ttl), _cleanup_expired having run
\* dc ticks after the set
RoundTripCleaned(key, value, ttl, dc, dt) ==
    GetResult(CleanupResult(SetResult(cache, key, value, ttl, now), now + dc), key, now + dt)

\* C21: an entry set with ttl t is found by get as long as fewer than t ticks
\* have passed, whether _cleanup_expired has run or not, and get returns None
\* from then on, also while the expired row is still in the table.
C21_CacheExpiry ==
    \A key \in CacheKeys, value \in TaskValues, ttl \in ExpiryTtls :
        \A dt \in 0..(ttl + 1) :
            /\ RoundTrip(key, value, ttl, dt).hit <=> dt < ttl
            /\ dt >= ttl => /\ RoundTrip(key, value, ttl, dt).value = PyNone
                            /\ key \in DOMAIN RoundTrip(key, value, ttl, dt).cache
            /\ \A dc \in 0..dt :
                  RoundTripCleaned(key, value, ttl, dc, dt).hit <=> dt < ttl

\* a get returned None for a key whose row was in the table all along, its
\* expiry reached and _cleanup_expired not having deleted it
C21_Witness ==
    /\ OnlyGets
    /\ \E i \in DOMAIN tasks :
          /\ Done(tasks[i])
          /\ tasks[i].result = PyNone
          /\ tasks[i].key \in DOMAIN cache
          /\ tasks[i].key \in DOMAIN written
          /\ cache[tasks[i].key].expires_at <= now

\* cash + the sum of quantity * current_price over the positions a row serializes
RowValue(row) == RAdd(row.cash, PositionsValue(JsonLoads(row.positions)))

\* C22: with process_prediction and close_position running while
\* update_portfolio_values awaits, every row of portfolio_history still has a
\* total_value equal to its own cash plus the value of its own positions, as
\* it has when the calls run one after the other.
C22_SnapshotRowsConsistent ==
    \A i \in DOMAIN portfolio_history :
        portfolio_history[i].total_value = RowValue(portfolio_history[i])

\* the ledger replayed: a BUY takes total_value + commission from the cash and
\* adds its quantity, a SELL returns total_value - commission and takes it
ReplayOne(acc, trade) ==
    IF trade.action = BUY
    THEN [ cash |-> RSub(acc.cash, RAdd(trade.total_value, trade.commission)),
           quantity |-> [acc.quantity EXCEPT ![trade.ticker] = @ + trade.quantity] ]
    ELSE [ cash |-> RAdd(acc.cash, RSub(trade.total_value, trade.commission)),
           quantity |-> [acc.quantity EXCEPT ![trade.ticker] = @ - trade.quantity] ]

RECURSIVE Replay(_, _)
Replay(acc, trades) ==
    IF trades = <<>> THEN acc ELSE Replay(ReplayOne(acc, Head(trades)), Tail(trades))

Replayed ==
    Replay([cash |-> portfolio.initial_capital, quantity |-> [t \in Tickers |-> 0]], paper_trades)

\* C23: replaying the rows of paper_trades in order from initial_capital gives
\* the cash and the quantity of every ticker the engine holds, and each row's
\* cash_before is the cash_after of the row before it.
C23_LedgerReplaysState ==
    /\ Replayed.cash = portfolio.cash
    /\ \A t \in Tickers : Replayed.quantity[t] = Held(t)
    /\ \A i \in 2..Len(paper_trades) :
          paper_trades[i].cash_before = paper_trades[i - 1].cash_after

\* C24: for every position held, after any sequence of BUYs and SELLs of
\* _execute_trade, avg_price * quantity equals total_cost.
C24_AvgPriceTimesQuantity ==
    \A t \in DOMAIN portfolio.positions :
        RMul(portfolio.positions[t].avg_price, RInt(portfolio.positions[t].quantity))
            = portfolio.positions[t].total_cost

\* the maximum of total_value over the rows 1..i
RECURSIVE PeakUpTo(_, _)
PeakUpTo(history, i) ==
    IF i = 1 THEN history[1].total_value
    ELSE IF RGt(history[i].total_value, PeakUpTo(history, i - 1))
         THEN history[i].total_value
         ELSE PeakUpTo(history, i - 1)

\* (total_value - peak) / peak of row i, in percent as the rows record it
DrawdownAt(history, i) ==
    RMul(RDiv(RSub(history[i].total_value, PeakUpTo(history, i)), PeakUpTo(history, i)),
         RInt(100))

\* C25: every row of portfolio_history records the drawdown of its total_value
\* from the maximum of total_value over the rows up to and including itself;
\* the drawdown is never positive, and is 0 exactly at a new or equal high.
C25_DrawdownFromRunningPeak ==
    \A i \in DOMAIN portfolio_history :
        /\ portfolio_history[i].drawdown = DrawdownAt(portfolio_history, i)
        /\ ~RGt(portfolio_history[i].drawdown, Zero)
        /\ portfolio_history[i].drawdown = Zero
           <=> portfolio_history[i].total_value = PeakUpTo(portfolio_history, i)

\* the maximum of the values 1..i
RECURSIVE PeakUpToValue(_, _)
PeakUpToValue(values, i) ==
    IF i = 1 THEN values[1]
    ELSE IF RGt(values[i], PeakUpToValue(values, i - 1)) THEN values[i]
         ELSE PeakUpToValue(values, i - 1)

\* the series v_0..v_n of the engine: initial_capital, then the total_value of
\* each row; the daily_return of row i is v_i / v_(i-1) - 1, in percent
ValueSeries ==
    <<portfolio.initial_capital>>
    \o [i \in DOMAIN portfolio_history |-> portfolio_history[i].total_value]

\* the minimum over i of (v_i - peak_i) / peak_i, peak_i the maximum of v_1..v_i
RECURSIVE MinOverPeaks(_, _)
MinOverPeaks(values, i) ==
    LET peak == PeakUpToValue(values, i)
        here == RDiv(RSub(values[i], peak), peak)
    IN  IF i = 1 THEN here ELSE RMin(MinOverPeaks(values, i - 1), here)

\* C26: the max_drawdown computed from the values by _calculate_max_drawdown is
\* the minimum over the series of (v_i - peak_i) / peak_i, and _analyze_risk
\* reports the same number, in percent rounded to two places, from the daily
\* returns of the series.
C26_MaxDrawdownAgree ==
    /\ CalculateMaxDrawdown(ValueSeries) = MinOverPeaks(ValueSeries, Len(ValueSeries))
    /\ MaxDrawdownOfReturns(DailyReturns(portfolio_history))
           = Round2(RMul(CalculateMaxDrawdown(ValueSeries), RInt(100)))

\* process_prediction on the portfolio holding the given cash: the action
\* chosen, the quantity sized and the outcome of the call
ProposedAction(ticker, prediction) ==
    DetermineAction(config, portfolio.positions, ticker,
                    prediction.probability, prediction.confidence)

ProposedQuantity(ticker, prediction, price, cash) ==
    CalculateQuantity(config, [portfolio EXCEPT !.cash = cash], ticker, price,
                      ProposedAction(ticker, prediction))

ProposedResult(ticker, prediction, price, cash) ==
    ProcessPredictionResult(config, [portfolio EXCEPT !.cash = cash], paper_trades, ticker,
                            prediction.probability, prediction.confidence,
                            <<1>>, price, TRUE).result

\* the trade proposed can be executed
Executable(ticker, prediction, price, cash) ==
    \/ ProposedAction(ticker, prediction) = HOLD
    \/ /\ ProposedAction(ticker, prediction) = BUY
          => ~RGt(RMul(RMul(price, RInt(ProposedQuantity(ticker, prediction, price, cash))),
                       RAdd(RInt(1), config.commission_rate)),
                  cash)
       /\ ProposedAction(ticker, prediction) = SELL
          => /\ ProposedQuantity(ticker, prediction, price, cash) = Held(ticker)
             /\ Held(ticker) > 0
       /\ ProposedResult(ticker, prediction, price, cash)
             \notin {"InsufficientCash", "InsufficientShares"}

\* C27: with a commission_rate of at most 0.05, the BUY that process_prediction
\* sizes costs, commission included, no more than the cash, the SELL it
\* proposes is of the whole quantity held, and the call fails neither for
\* insufficient cash nor for insufficient shares.
C27_ProposedTradesExecutable ==
    ~RGt(config.commission_rate, Rat(5, 100))
    => \A ticker \in Tickers, prediction \in Predictions, price \in SizingPrices,
          cash \in SizingCash \cup {portfolio.cash} :
           Executable(ticker, prediction, price, cash)

\* process_prediction has bought from the cash an earlier BUY had left, under a
\* commission_rate of at most 0.05
C27_Witness ==
    /\ last = [op |-> "process", result |-> "trade"]
    /\ ~RGt(config.commission_rate, Rat(5, 100))
    /\ LastTrade.action = BUY
    /\ RLt(LastTrade.cash_before, config.initial_capital)
    /\ ~RLt(LastTrade.cash_after, Zero)

\* the action process_prediction chooses in the current state at a price
ActionAt(ticker, prediction, price) ==
    ChosenAction(config, portfolio, ticker, prediction.probability, prediction.confidence, price)

\* the call of process_prediction in the current state at a price
ProcessedAt(ticker, prediction, price) ==
    ProcessPredictionResult(config, portfolio, paper_trades, ticker, prediction.probability,
                            prediction.confidence, <<1>>, price, TRUE)

\* the call at this price carries out the action chosen: nothing on HOLD, the
\* whole position sold on SELL, a trade at the price given
CarriedOut(ticker, action, price, r) ==
    /\ action = HOLD => r.result = "none"
    /\ action = SELL => r.result = "trade" /\ NewTrade(r).quantity = Held(ticker)
    /\ r.result = "trade" => NewTrade(r).action = action /\ NewTrade(r).price = price

\* C28: two calls of process_prediction from the same state with the same
\* prediction and different current_price choose the same action; the price
\* given is the price of the trade and sizes a BUY, nothing else.
C28_ActionIgnoresPrice ==
    \A ticker \in Tickers, prediction \in Predictions, p1 \in PriceInputs :
        /\ \A p2 \in PriceInputs :
              ActionAt(ticker, prediction, p1) = ActionAt(ticker, prediction, p2)
        /\ CarriedOut(ticker, ActionAt(ticker, prediction, p1), p1,
                      ProcessedAt(ticker, prediction, p1))

\* process_prediction has sold a position at a current_price other than the
\* price the position had stored
C28_Witness ==
    /\ last = [op |-> "process", result |-> "trade"]
    /\ Len(paper_trades) = 2
    /\ paper_trades[1].action = BUY
    /\ paper_trades[2].action = SELL
    /\ paper_trades[2].ticker = paper_trades[1].ticker
    /\ paper_trades[2].price # paper_trades[1].price

\* the rows check_risk_limits added to paper_trades
AddedTrades(r) == SubSeq(r.paper_trades, Len(paper_trades) + 1, Len(r.paper_trades))

\* every position is sold: none is left, and each ticker held has one SELL
\* among the rows added
Liquidated(r) ==
    /\ r.portfolio.positions = <<>>
    /\ Len(AddedTrades(r)) = Cardinality(DOMAIN portfolio.positions)
    /\ \A t \in DOMAIN portfolio.positions :
          \E i \in DOMAIN AddedTrades(r) :
              AddedTrades(r)[i].ticker = t /\ AddedTrades(r)[i].action = SELL

\* C29: with abs(max_drawdown) above 25, check_risk_limits leaves no position
\* and has recorded one SELL per ticker held; else it changes neither the cash
\* nor the positions.
C29_RiskLimitLiquidates ==
    \A order \in KeyOrders(portfolio.positions) :
        IF RiskLimitExceeded(portfolio)
        THEN Liquidated(CheckRiskLimitsResult(config, portfolio, paper_trades, order))
        ELSE /\ CheckRiskLimitsResult(config, portfolio, paper_trades, order).portfolio.cash
                    = portfolio.cash
             /\ CheckRiskLimitsResult(config, portfolio, paper_trades, order).portfolio.positions
                    = portfolio.positions

\* the trades of the run, none before it
Simulated == IF backtest = <<>> THEN <<>> ELSE backtest[1].trades

\* the cost of the BUY that opened the position sold by record k: the last BUY
\* before it
OpeningCost(trades, k) == LastBuyCost(SubSeq(trades, 1, k - 1))

\* C30: the profit of every SELL record of _simulate_trades is its revenue
\* minus shares * price of the BUY that opened the position, whatever HOLD
\* records lie between the two.
C30_SellProfit ==
    \A k \in DOMAIN Simulated :
        Simulated[k].type = "SELL"
        => Simulated[k].profit =
               RSub(RMul(RInt(Simulated[k].shares), Simulated[k].price),
                    OpeningCost(Simulated, k))

====
